---- MODULE Spec2Model ----
(***************************************************************************)
(* A model of the kong-ingress reconciliation controller                   *)
(* (pkg/controller/controller.go): the ingress sync and the service sync   *)
(* (garbage collection) procedures, run by the workers of two task queues  *)
(* against an orchestrator (services, ingresses, informer caches) and a    *)
(* gateway (APIs, plugins).  A worker takes one step per outgoing network  *)
(* call: the local computation up to the call and the call itself.         *)
(***************************************************************************)
EXTENDS Integers, Sequences, FiniteSets, TLC

\* ---------------------------------------------------------------- bounds

\* Network calls that may fail in one behaviour.
MaxFaults == 1
\* Per-key retry counter at which a failing key is no longer requeued.
MaxRequeues == 2
\* Gateway API records created in one behaviour.
MaxUid == 2
\* Watch events that change or delete an ingress in one behaviour.
MaxEdits == 1

\* ------------------------------------------------------------- constants

\* Run(workers, stopc): worker goroutines started per queue.
NumWorkers == 2
Workers == 1..NumWorkers

pluginPrefix == "kolihub.io/plugin-"
jwtAuth0DomainAnnotation == "kolihub.io/x-jwt-auth0-domain"
\* kong.Finalizer, the cleanup finalizer the ingress sync puts on a service.
Finalizer == "kong.koli.io/finalizer"
\* cfg.ClusterDNS
ClusterDNS == "cluster.local"

\* numRequeues above which syncIngress sets the ingress dirty.
autoClaimMaxRetries == 1

Nil == "nil"

\* ------------------------------------------------------------- universe

Namespace == "app"
SvcKeys == {"s1", "s2"}
IngKeys == {"i1", "i2"}

\* Paths are byte strings: "" , "/" and "/a".
PEmpty == << >>
PRoot == <<47>>
PA == <<47, 97>>
PB == <<47, 98>>

\* An annotation key is its text split at the plugin prefix.
PluginKey(name) == [prefix |-> pluginPrefix, rest |-> name]

\* strings.HasPrefix(a, pluginPrefix)
HasPluginPrefix(a) == a.prefix = pluginPrefix

\* strings.TrimPrefix(a, pluginPrefix)
TrimPluginPrefix(a) == a.rest

\* Every plugin name passes for recognized.
AnyPluginName == {"key-auth", "cors", "jwt", "rate-limiting", "foo"}

\* The names ConfigurePluginsForAPI has a config schema for (lines 247-267).
RecognizedPlugins == {"key-auth", "cors", "jwt", "rate-limiting"}

\* json.Unmarshal of an annotation value: the value "bad" is not JSON.
JsonValid(v) == v # "bad"

Backend(path, svcName, port) == [path |-> path, svc |-> svcName, port |-> port]

Rule(host, paths) == [host |-> host, http |-> TRUE, paths |-> paths]

RuleNoHTTP(host) == [host |-> host, http |-> FALSE, paths |-> << >>]

\* An ingress without a TLS section.
Ingress(rules, ann) == [exists |-> TRUE, rules |-> rules, ann |-> ann, tls |-> << >>]

\* An entry of ing.Spec.TLS: the name of a secret and the hosts it is for.
IngressTLS(secretName, hosts) == [secret |-> secretName, hosts |-> hosts]

\* The secrets of the namespace and their types.
SecretTypes == ("cert1" :> "kubernetes.io/tls") @@ ("opq" :> "Opaque")

\* The annotation TryAutoConfigureAuth0 looks for (line 339).
Auth0Key == [prefix |-> jwtAuth0DomainAnnotation, rest |-> ""]

NoAnn == [a \in {} |-> "v1"]

\* The annotation the handlers of the ingress informer filter by.
ingressClassKey == [prefix |-> "kubernetes.io/ingress.class", rest |-> ""]

\* The annotations of an ingress of class kong.
KongAnn == ingressClassKey :> "kong"

\* isKongIngress: the class annotation of the ingress is kong.
isKongIngress(ingress) ==
    ingressClassKey \in DOMAIN ingress.ann /\ ingress.ann[ingressClassKey] = "kong"

\* A key the informer store of ingresses does not hold.
NoIngress == [exists |-> FALSE, rules |-> << >>, ann |-> NoAnn, tls |-> << >>]

\* The ingresses a watch event may deliver.
IngA == Ingress(<<Rule("h1", <<Backend(PA, "s1", 80)>>)>>, KongAnn)
IngEmpty == Ingress(<<Rule("h1", <<Backend(PEmpty, "s1", 80)>>)>>, KongAnn)
IngRoot == Ingress(<<Rule("h1", <<Backend(PRoot, "s1", 443)>>)>>, KongAnn)
IngTwo == Ingress(<<RuleNoHTTP("h2"),
                    Rule("h1", <<Backend(PA, "s1", 80), Backend(PRoot, "s1", 443)>>)>>,
                  KongAnn)
\* Two paths of one host, the second the empty one, after a rule with no
\* HTTP section.
IngMixed == Ingress(<<RuleNoHTTP("h2"),
                      Rule("h1", <<Backend(PA, "s1", 80), Backend(PEmpty, "s1", 80)>>)>>,
                    KongAnn)
\* Three paths of one host; the backend service of the second does not
\* exist.
IngLost == Ingress(<<Rule("h1", <<Backend(PA, "s1", 80), Backend(PRoot, "s2", 80),
                                   Backend(PB, "s1", 80)>>)>>, KongAnn)
\* One plugin annotation, cors, with the value the others do not have.
IngCors1 == Ingress(<<Rule("h1", <<Backend(PA, "s1", 80)>>)>>, (PluginKey("cors") :> "v1") @@ KongAnn)
IngPlug == Ingress(<<Rule("h1", <<Backend(PA, "s1", 80)>>)>>,
                   (PluginKey("cors") :> "v1") @@ (PluginKey("foo") :> "v1") @@ KongAnn)
IngPlug2 == Ingress(<<Rule("h1", <<Backend(PA, "s1", 80)>>)>>,
                    (PluginKey("cors") :> "v2") @@ (PluginKey("jwt") :> "v1") @@ KongAnn)

\* No rule with a path, and a plugin annotation with an unrecognized name.
IngBare == Ingress(<<RuleNoHTTP("h1")>>, (PluginKey("foo") :> "v1") @@ KongAnn)

\* The ingress of another controller, and one with no class at all.
IngOther == Ingress(<<Rule("h1", <<Backend(PA, "s1", 80)>>)>>, ingressClassKey :> "nginx")
IngNoClass == Ingress(<<Rule("h1", <<Backend(PA, "s1", 80)>>)>>, NoAnn)

\* Ingresses annotated with the identity provider's host "idp": two paths,
\* one path, and no rule with a path.
IngAuth2 == Ingress(<<Rule("h1", <<Backend(PA, "s1", 80), Backend(PRoot, "s1", 80)>>)>>,
                    (Auth0Key :> "idp") @@ KongAnn)
IngAuth1 == Ingress(<<Rule("h1", <<Backend(PA, "s1", 80)>>)>>, (Auth0Key :> "idp") @@ KongAnn)
IngAuthBare == Ingress(<<RuleNoHTTP("h1")>>, (Auth0Key :> "idp") @@ KongAnn)

\* An ingress with a plugin, a TLS section and the identity provider's host.
IngFull ==
    [Ingress(<<Rule("h1", <<Backend(PA, "s1", 80), Backend(PRoot, "s1", 80)>>)>>,
             (PluginKey("cors") :> "v1") @@ (Auth0Key :> "idp") @@ KongAnn)
     EXCEPT !.tls = <<IngressTLS("cert1", <<"h1">>)>>]

\* One path, a TLS section and the identity provider's host, without a
\* plugin and with one.
IngSecure ==
    [Ingress(<<Rule("h1", <<Backend(PA, "s1", 80)>>)>>, (Auth0Key :> "idp") @@ KongAnn)
     EXCEPT !.tls = <<IngressTLS("cert1", <<"h1">>)>>]

IngSecurePlug ==
    [Ingress(<<Rule("h1", <<Backend(PA, "s1", 80)>>)>>,
             (PluginKey("cors") :> "v1") @@ (Auth0Key :> "idp") @@ KongAnn)
     EXCEPT !.tls = <<IngressTLS("cert1", <<"h1">>)>>]

\* The same with a secret that is not a TLS secret after the first.
IngFullOpaque ==
    [IngFull EXCEPT !.tls = <<IngressTLS("cert1", <<"h1">>), IngressTLS("opq", <<"h2">>)>>]

\* The ports whose upstream URLs are compared, and an ingress with one path
\* to service s1 at one of them.
UrlPorts == {80, 443, 8443}

IngPort(port) == Ingress(<<Rule("h1", <<Backend(PA, "s1", port)>>)>>, KongAnn)

\* The port lists a service may have.
PortLists == {<< >>, <<80>>, <<80, 443>>}

\* The annotation setDirty patches and looks for.
DirtyKey == [prefix |-> "kolihub.io/dirty", rest |-> ""]

\* ing.Annotations["kolihub.io/dirty"] == "true"
IsDirty(ingress) ==
    ingress.exists /\ DirtyKey \in DOMAIN ingress.ann /\ ingress.ann[DirtyKey] = "true"

\* The ingress after the patch {"metadata": {"annotations": {"kolihub.io/dirty": "true"}}}.
WithDirty(ingress) == [ingress EXCEPT !.ann = (DirtyKey :> "true") @@ @]

\* ------------------------------------------------------- pure functions

\* https for 8443 as well.
svcProtoTLSPorts(port) == IF port \in {443, 8443} THEN "https" ELSE "http"

\* The proto chosen by syncServices for a service port.
svcProto(port) == IF port = 443 THEN "https" ELSE "http"

\* The proto chosen by syncIngress for a backend port.
ingProto(port) == IF port = 443 THEN "https" ELSE "http"

\* fmt.Sprintf("%s://%s.%s.%s:%d", proto, svcName, ns, ClusterDNS, svcPort):
\* the URL as the tuple of its fields.
getUpstream(proto, ns, svcName, svcPort) ==
    [proto |-> proto, svc |-> svcName, ns |-> ns, dns |-> ClusterDNS, port |-> svcPort]

\* Adler-32 of a byte string: a and b after the bytes of s.
RECURSIVE AdlerAB(_)
AdlerAB(s) ==
    IF s = << >> THEN <<1, 0>>
    ELSE LET prev == AdlerAB(SubSeq(s, 1, Len(s) - 1))
             a == (prev[1] + s[Len(s)]) % 65521
             b == (prev[2] + a) % 65521
         IN <<a, b>>

\* GenAdler32Hash: the checksum, whose decimal text stands for the number.
GenAdler32Hash(s) == AdlerAB(s)[2] * 65536 + AdlerAB(s)[1]

\* An empty path or root one (/) has no distinction in Kong.
NormalizePath(p) == IF p = PRoot \/ p = PEmpty THEN PRoot ELSE p

\* The name with the path hashed as it is written in the ingress.
ApiNameRaw(host, ns, path) ==
    [host |-> host, ns |-> ns, hash |-> GenAdler32Hash(path)]

\* fmt.Sprintf("%s~%s~%s", host, ns, GenAdler32Hash(pathURI))
ApiName(host, ns, path) ==
    [host |-> host, ns |-> ns, hash |-> GenAdler32Hash(NormalizePath(path))]

\* The (rule host, path, backend) triples syncIngress visits, in order:
\* the rules whose HTTP section is nil are skipped.
RECURSIVE PathsOfRules(_)
PathsOfRules(rs) ==
    IF rs = << >> THEN << >>
    ELSE (IF Head(rs).http
          THEN [k \in 1..Len(Head(rs).paths) |->
                  [host |-> Head(rs).host, path |-> Head(rs).paths[k].path,
                   svc |-> Head(rs).paths[k].svc, port |-> Head(rs).paths[k].port]]
          ELSE << >>) \o PathsOfRules(Tail(rs))

PathsOf(ingress) == PathsOfRules(ingress.rules)

\* The (secret, host) pairs TryConfigureCertificates visits, in order
\* (lines 304-305).
RECURSIVE CertsOfTLS(_)
CertsOfTLS(ts) ==
    IF ts = << >> THEN << >>
    ELSE [k \in 1..Len(Head(ts).hosts) |->
             [secret |-> Head(ts).secret, host |-> Head(ts).hosts[k]]]
         \o CertsOfTLS(Tail(ts))

CertsOf(ingress) == CertsOfTLS(ingress.tls)

\* Lines 337-346: the value of the annotation, "" when there is none.
Auth0Host(ingress) ==
    IF Auth0Key \in DOMAIN ingress.ann THEN ingress.ann[Auth0Key] ELSE ""

\* The issuer without the '/' at its end.
JwtKeyNoSlash(host) == [scheme |-> "https", host |-> host, path |-> ""]

\* Line 406: "https://" + host + "/", as the tuple of its parts.
JwtKey(host) == [scheme |-> "https", host |-> host, path |-> "/"]

\* Lines 402-407: the credential TryAutoConfigureAuth0 creates.
JwtCredential(host) == [consumer |-> host, algorithm |-> "RS256", key |-> JwtKey(host)]

\* The upstream URL syncServices lists for a port of a service.
svcUpstream(svcName, port) == getUpstream(svcProto(port), Namespace, svcName, port)

\* The upstream URL syncIngress gives the API of a backend.
ingUpstream(b) == getUpstream(ingProto(b.port), Namespace, b.svc, b.port)

\* ------------------------------------------------------------------ state

VARIABLES
    svc,          \* the services held by the orchestrator
    svcCache,     \* the informer store of services
    ing,          \* the informer store of ingresses
    gwApis,       \* the gateway's API records
    gwPlugins,    \* the gateway's plugins
    nextUid,      \* the UIDs the gateway has handed out
    ingQueue,     \* ingQueue: the pending ingress keys
    svcQueue,     \* svcQueue: the pending service keys
    ingRequeues,  \* numRequeues of each ingress key
    svcRequeues,  \* numRequeues of each service key
    ingResult,    \* what the last sync of each ingress key returned
    iw,           \* the workers of ingQueue
    sw,           \* the workers of svcQueue
    faults,       \* failures of network calls still to come
    edits,        \* ingress watch events still to come
    menu,         \* the ingresses those events may deliver
    run,          \* where Run is: informers synced, workers started, stop
    gwAuth,       \* the gateway's certificates, consumers and JWT credentials
    hist          \* no variable of the code: what has happened so far

vars == <<svc, svcCache, ing, gwApis, gwPlugins, nextUid, ingQueue, svcQueue,
          ingRequeues, svcRequeues, ingResult, iw, sw, faults, edits, menu,
          run, gwAuth, hist>>

NoKey == [prefix |-> "", rest |-> ""]

\* The gateway holds no certificate, no consumer and no JWT credential:
\* snis are the names it has a certificate for, consumers the usernames,
\* creds the JWT credentials.
NoAuth == [snis |-> {}, consumers |-> {}, creds |-> {}]

\* The three queues of the controller (lines 87-89).
AllQueues == {"ing", "dom", "svc"}

\* Run waits for the informers (line 174): neither has synced, the stop
\* channel is open, no worker is started, no queue is shut down.
Waiting ==
    [phase |-> "waiting", ingSynced |-> FALSE, svcSynced |-> FALSE, stop |-> FALSE,
     workers |-> {}, shutdown |-> {}]

\* Run has started the workers of the queues (line 179-185).
Running ==
    [phase |-> "running", ingSynced |-> TRUE, svcSynced |-> TRUE, stop |-> FALSE,
     workers |-> AllQueues, shutdown |-> {}]

\* hot: the ingress keys syncIngress was invoked for with numRequeues
\* greater than autoClaimMaxRetries.  early: the stop channel was closed
\* before both informers had synced.
\* ev: the watch event a handler was last called with (its kind, the key
\* of its object, whether the object delivered is of class kong, whether
\* the resource version differs from the old object's, whether a tombstone
\* was delivered).
NoEvent == [kind |-> Nil, key |-> Nil, kong |-> FALSE, changed |-> FALSE, tomb |-> FALSE]

\* warn: the warning events recorded on ingresses.
NoHist == [hot |-> {}, early |-> FALSE, ev |-> NoEvent, warn |-> {}]

NoSvc == [exists |-> FALSE, deleting |-> FALSE, finalizers |-> {}, ports |-> << >>]

LiveSvc(ports) == [exists |-> TRUE, deleting |-> FALSE, finalizers |-> {}, ports |-> ports]

\* A worker of svcQueue: where it is in syncServices and its local variables.
IdleSvcWorker ==
    [pc |-> "idle", key |-> Nil, deleting |-> FALSE, ports |-> << >>, i |-> 0,
     items |-> {}, res |-> Nil]

\* A worker of ingQueue: where it is in syncIngress and its local variables
\* (api: the UID of the API read or returned; resp: the answer to the last
\* UpdateOrCreate).
\* gc is no variable of the code: it records that a service sync deleted an
\* API after this sync began.  Nor is fin: the services whose finalizer
\* patch has succeeded in this sync.
IdleIngWorker ==
    [pc |-> "idle", key |-> Nil, ing |-> NoIngress, j |-> 0, api |-> 0,
     resp |-> Nil, todo |-> {}, cur |-> NoKey, t |-> 0, res |-> Nil, gc |-> FALSE,
     fin |-> {}]

\* A network call fails: any call may, while failures remain.
Fault == faults > 0 /\ faults' = faults - 1

NoFault == UNCHANGED faults

\* ----------------------------------------------------------- the gateway

\* GET /apis?upstream_url=u: the names of the APIs with that upstream.
ApiList(u) == {a.name : a \in {x \in gwApis : x.upstream = u}}

\* DELETE /apis/{name}: the API goes, and its plugins with it.
ApiDelete(name) ==
    /\ gwApis' = {a \in gwApis : a.name # name}
    /\ gwPlugins' = {p \in gwPlugins : \A a \in gwApis : a.name = name => p.api # a.uid}

\* ---------------------------------------------------------- service sync

SvcInFlight == {sw[w].key : w \in Workers}

\* syncServices returns res: the worker keeps the service it read.
SvcRet(w, res) ==
    sw' = [sw EXCEPT ![w] = [sw[w] EXCEPT !.pc = "ret", !.i = 0, !.items = {}, !.res = res]]

\* Only a service that is absent is left alone.
NothingToCollectAbsentOnly(obj) == ~obj.exists

\* Lines 199-206: the service is not in the store, or it is and has no
\* deletion timestamp: syncServices returns nil.
NothingToCollect(obj) == ~obj.exists \/ ~obj.deleting

\* A worker of svcQueue (the first idle one, the workers being alike) takes
\* a key and syncServices looks the service up
\* (lines 194-207): absent or not being deleted, it returns nil; with no
\* port the loop body never runs and it returns nil as well.
SvcStart(w) ==
    /\ sw[w].pc = "idle"
    /\ run.phase = "running"
    /\ \A v \in Workers : v < w => sw[v].pc # "idle"
    /\ \E key \in svcQueue \ SvcInFlight :
        /\ svcQueue' = svcQueue \ {key}
        /\ LET obj == svcCache[key] IN
            IF NothingToCollect(obj)
            THEN sw' = [sw EXCEPT ![w] = [IdleSvcWorker EXCEPT !.pc = "ret", !.key = key,
                                                              !.res = "ok"]]
            ELSE IF obj.ports = << >>
            THEN sw' = [sw EXCEPT ![w] = [IdleSvcWorker EXCEPT !.pc = "ret", !.key = key,
                                                              !.deleting = TRUE, !.res = "ok"]]
            ELSE sw' = [sw EXCEPT ![w] = [IdleSvcWorker EXCEPT !.pc = "list", !.key = key,
                                                              !.deleting = TRUE,
                                                              !.ports = obj.ports, !.i = 1]]
    /\ UNCHANGED <<svc, svcCache, ing, gwApis, gwPlugins, nextUid, ingQueue,
                   ingRequeues, svcRequeues, ingResult, iw, faults, edits, menu,
                   run, hist, gwAuth>>

\* Lines 208-219: the APIs of the port's upstream are listed.
SvcList(w) ==
    /\ sw[w].pc = "list"
    /\ \/ /\ Fault
          /\ SvcRet(w, "err")
       \/ /\ NoFault
          /\ LET items == ApiList(svcUpstream(sw[w].key, sw[w].ports[sw[w].i])) IN
             sw' = [sw EXCEPT ![w].items = items,
                              ![w].pc = IF items = {} THEN "patch" ELSE "delete"]
    /\ UNCHANGED <<svc, svcCache, ing, gwApis, gwPlugins, nextUid, ingQueue, svcQueue,
                   ingRequeues, svcRequeues, ingResult, iw, edits, menu,
                   run, hist, gwAuth>>

\* Lines 220-225: one listed API is deleted by name.
SvcDelete(w) ==
    /\ sw[w].pc = "delete"
    /\ \E name \in sw[w].items :
        \/ /\ Fault
           /\ SvcRet(w, "err")
           /\ UNCHANGED <<gwApis, gwPlugins, iw>>
        \/ /\ NoFault
           /\ ApiDelete(name)
           /\ sw' = [sw EXCEPT ![w].items = @ \ {name},
                               ![w].pc = IF sw[w].items = {name} THEN "patch" ELSE "delete"]
           /\ iw' = [v \in Workers |->
                       IF iw[v].pc = "idle" \/ gwApis' = gwApis THEN iw[v]
                       ELSE [iw[v] EXCEPT !.gc = TRUE]]
    /\ UNCHANGED <<svc, svcCache, ing, nextUid, ingQueue, svcQueue,
                   ingRequeues, svcRequeues, ingResult, edits, menu,
                   run, hist, gwAuth>>

\* Lines 226-234: the patch that empties the finalizers, inside the loop
\* over the ports; then the next port, or return nil after the last.
SvcPatch(w) ==
    /\ sw[w].pc = "patch"
    /\ \/ /\ Fault
          /\ SvcRet(w, "err")
          /\ UNCHANGED svc
       \/ /\ NoFault
          /\ ~svc[sw[w].key].exists
          /\ SvcRet(w, "err")
          /\ UNCHANGED svc
       \/ /\ NoFault
          /\ svc[sw[w].key].exists
          /\ svc' = [svc EXCEPT ![sw[w].key].finalizers = {}]
          /\ IF sw[w].i < Len(sw[w].ports)
             THEN sw' = [sw EXCEPT ![w].i = @ + 1, ![w].pc = "list"]
             ELSE SvcRet(w, "ok")
    /\ UNCHANGED <<svcCache, ing, gwApis, gwPlugins, nextUid, ingQueue, svcQueue,
                   ingRequeues, svcRequeues, ingResult, iw, edits, menu,
                   run, hist, gwAuth>>

\* syncServices has returned: the queue forgets the key on nil and requeues
\* it, counting, on an error.
SvcReturn(w) ==
    /\ sw[w].pc = "ret"
    /\ LET key == sw[w].key IN
        /\ IF sw[w].res = "ok"
           THEN /\ svcRequeues' = [svcRequeues EXCEPT ![key] = 0]
                /\ UNCHANGED svcQueue
           ELSE IF svcRequeues[key] < MaxRequeues
           THEN /\ svcRequeues' = [svcRequeues EXCEPT ![key] = @ + 1]
                /\ svcQueue' = svcQueue \cup {key}
           ELSE UNCHANGED <<svcRequeues, svcQueue>>
    /\ sw' = [sw EXCEPT ![w] = IdleSvcWorker]
    /\ UNCHANGED <<svc, svcCache, ing, gwApis, gwPlugins, nextUid, ingQueue,
                   ingRequeues, ingResult, iw, faults, edits, menu,
                   run, hist, gwAuth>>

\* ------------------------------------------------------ the orchestrator

\* A service is deleted: it stays, with a deletion timestamp, while it
\* carries a finalizer.
DeleteService(s) ==
    /\ svc[s].exists /\ ~svc[s].deleting
    /\ svc' = [svc EXCEPT ![s] = IF svc[s].finalizers = {} THEN NoSvc
                                 ELSE [svc[s] EXCEPT !.deleting = TRUE]]
    /\ UNCHANGED <<svcCache, ing, gwApis, gwPlugins, nextUid, ingQueue, svcQueue,
                   ingRequeues, svcRequeues, ingResult, iw, sw, faults, edits, menu,
                   run, hist, gwAuth>>

\* A service being deleted vanishes once its finalizers are empty.
ReapService(s) ==
    /\ svc[s].exists /\ svc[s].deleting /\ svc[s].finalizers = {}
    /\ svc' = [svc EXCEPT ![s] = NoSvc]
    /\ UNCHANGED <<svcCache, ing, gwApis, gwPlugins, nextUid, ingQueue, svcQueue,
                   ingRequeues, svcRequeues, ingResult, iw, sw, faults, edits, menu,
                   run, hist, gwAuth>>

\* A service is created under the name of one that is gone: a new object,
\* without deletion timestamp or finalizer.
RecreateService(s) ==
    /\ edits > 0
    /\ edits' = edits - 1
    /\ ~svc[s].exists
    /\ \E ports \in PortLists : svc' = [svc EXCEPT ![s] = LiveSvc(ports)]
    /\ UNCHANGED <<svcCache, ing, gwApis, gwPlugins, nextUid, ingQueue, svcQueue,
                   ingRequeues, svcRequeues, ingResult, iw, sw, faults, menu,
                   run, hist, gwAuth>>

\* The service informer delivers a change: the store is updated and the
\* Add, Update and Delete handlers all enqueue the key (lines 131-145).
ServiceEvent(s) ==
    /\ svcCache[s] # svc[s]
    /\ svcCache' = [svcCache EXCEPT ![s] = svc[s]]
    /\ svcQueue' = svcQueue \cup {s}
    /\ UNCHANGED <<svc, ing, gwApis, gwPlugins, nextUid, ingQueue,
                   ingRequeues, svcRequeues, ingResult, iw, sw, faults, edits, menu,
                   run, hist, gwAuth>>

\* An ingress is added, changed or deleted: the store is updated and the
\* Add, Update and Delete handlers enqueue the key (lines 97-122).
IngressChange(k) ==
    /\ edits > 0
    /\ edits' = edits - 1
    /\ \E new \in (menu \cup {NoIngress}) \ {ing[k]} :
        ing' = [ing EXCEPT ![k] = new]
    /\ ingQueue' = ingQueue \cup {k}
    /\ UNCHANGED <<svc, svcCache, gwApis, gwPlugins, nextUid, svcQueue,
                   ingRequeues, svcRequeues, ingResult, iw, sw, faults, menu,
                   run, hist, gwAuth>>

\* An ingress changes in its metadata only: the resource version differs,
\* so the Update handler enqueues the key (lines 106-113).
IngressTouch(k) ==
    /\ edits > 0
    /\ edits' = edits - 1
    /\ ing[k].exists
    /\ ingQueue' = ingQueue \cup {k}
    /\ UNCHANGED <<svc, svcCache, ing, gwApis, gwPlugins, nextUid, svcQueue,
                   ingRequeues, svcRequeues, ingResult, iw, sw, faults, menu,
                   run, hist, gwAuth>>

\* ------------------------------------------------------ the watch events

\* What an informer hands a handler: the object, of the type the informer
\* was built for, or on a delete the wrapper cache.DeletedFinalStateUnknown
\* with the key and the last state known.
LiveObject(type, name, version, body) ==
    [type |-> type, name |-> name, rv |-> version, body |-> body]

Tombstone(obj) == [type |-> "DeletedFinalStateUnknown", key |-> obj.name, obj |-> obj]

\* keyFunc (line 41), cache.DeletionHandlingMetaNamespaceKeyFunc: the key
\* of a tombstone is the one it carries, that of an object its
\* namespace/name.
keyFunc(obj) == IF obj.type = "DeletedFinalStateUnknown" THEN obj.key ELSE obj.name

\* The new object is of class kong, whatever the resource versions.
UpdateEnqueuesAnyVersion(old, new) == isKongIngress(new.body)

\* Line 109: the condition under which UpdateFunc adds the new object.
UpdateEnqueues(old, new) == old.rv # new.rv /\ isKongIngress(new.body)

\* An ingress appears: the store takes it and AddFunc (lines 98-105) adds
\* it to ingQueue unless its class is not kong.
IngressAdded(k) ==
    /\ edits > 0
    /\ edits' = edits - 1
    /\ run.phase = "running"
    /\ ~ing[k].exists
    /\ \E body \in menu :
        LET obj == LiveObject("Ingress", k, 1, body) IN
        /\ ing' = [ing EXCEPT ![k] = body]
        /\ ingQueue' = IF isKongIngress(obj.body) THEN ingQueue \cup {keyFunc(obj)}
                       ELSE ingQueue
        /\ hist' = [hist EXCEPT !.ev = [kind |-> "add", key |-> k,
                                        kong |-> isKongIngress(body),
                                        changed |-> TRUE, tomb |-> FALSE]]
    /\ UNCHANGED <<svc, svcCache, gwApis, gwPlugins, nextUid, svcQueue,
                   ingRequeues, svcRequeues, ingResult, iw, sw, faults, menu, run, gwAuth>>

\* An ingress is written, or the informer resyncs and delivers the object
\* it holds with the resource version it has: the store takes the new
\* object and UpdateFunc (lines 106-113) adds it to ingQueue when the
\* versions differ and the new object is of class kong.
IngressUpdated(k) ==
    /\ edits > 0
    /\ edits' = edits - 1
    /\ run.phase = "running"
    /\ ing[k].exists
    /\ \E body \in menu, version \in {1, 2} :
        LET old == LiveObject("Ingress", k, 1, ing[k])
            new == LiveObject("Ingress", k, version, body)
        IN
        /\ version = old.rv => body = ing[k]
        /\ ing' = [ing EXCEPT ![k] = body]
        /\ ingQueue' = IF UpdateEnqueues(old, new) THEN ingQueue \cup {keyFunc(new)}
                       ELSE ingQueue
        /\ hist' = [hist EXCEPT !.ev = [kind |-> "update", key |-> k,
                                        kong |-> isKongIngress(body),
                                        changed |-> version # old.rv, tomb |-> FALSE]]
    /\ UNCHANGED <<svc, svcCache, gwApis, gwPlugins, nextUid, svcQueue,
                   ingRequeues, svcRequeues, ingResult, iw, sw, faults, menu, run, gwAuth>>

\* An ingress is gone: the store drops it and DeleteFunc (lines 114-121) is
\* called with the object or, when the informer missed the deletion, with
\* a tombstone.  The type assertion of line 115 has one result, so on a
\* tombstone it panics, in a goroutine of the informer: the process ends.
\* Otherwise the object is added to ingQueue unless its class is not kong.
IngressDeleted(k) ==
    /\ edits > 0
    /\ edits' = edits - 1
    /\ run.phase = "running"
    /\ ing[k].exists
    /\ \E tomb \in BOOLEAN :
        LET last == LiveObject("Ingress", k, 1, ing[k])
            obj == IF tomb THEN Tombstone(last) ELSE last
        IN
        /\ ing' = [ing EXCEPT ![k] = NoIngress]
        /\ IF obj.type # "Ingress"
           THEN /\ run' = [run EXCEPT !.phase = "crashed"]
                /\ UNCHANGED ingQueue
           ELSE /\ ingQueue' = IF isKongIngress(obj.body) THEN ingQueue \cup {keyFunc(obj)}
                               ELSE ingQueue
                /\ UNCHANGED run
        /\ hist' = [hist EXCEPT !.ev = [kind |-> "delete", key |-> k,
                                        kong |-> isKongIngress(last.body),
                                        changed |-> TRUE, tomb |-> tomb]]
    /\ UNCHANGED <<svc, svcCache, gwApis, gwPlugins, nextUid, svcQueue,
                   ingRequeues, svcRequeues, ingResult, iw, sw, faults, menu, gwAuth>>

\* A service is gone: the store drops it and DeleteFunc (lines 132-134)
\* adds what it was called with, object or tombstone, to svcQueue, which
\* takes its key with keyFunc.
ServiceDeleted(s) ==
    /\ edits > 0
    /\ edits' = edits - 1
    /\ run.phase = "running"
    /\ svcCache[s].exists /\ ~svc[s].exists
    /\ \E tomb \in BOOLEAN :
        LET last == LiveObject("Service", s, 1, svcCache[s])
            obj == IF tomb THEN Tombstone(last) ELSE last
        IN
        /\ svcCache' = [svcCache EXCEPT ![s] = NoSvc]
        /\ svcQueue' = svcQueue \cup {keyFunc(obj)}
        /\ hist' = [hist EXCEPT !.ev = [kind |-> "svcdelete", key |-> s, kong |-> FALSE,
                                        changed |-> TRUE, tomb |-> tomb]]
    /\ UNCHANGED <<svc, ing, gwApis, gwPlugins, nextUid, ingQueue,
                   ingRequeues, svcRequeues, ingResult, iw, sw, faults, menu, run, gwAuth>>

\* ----------------------------------------------------------- ingress sync

\* No key is held back.
IngInFlightNone == {}

\* The keys of ingQueue a worker is processing: the queue hands such a key
\* to no other worker; added meanwhile, it waits in the queue.
IngInFlight == {iw[w].key : w \in Workers}

\* syncIngress returns res: the worker keeps the ingress it read.
IngRet(wr, res) ==
    [wr EXCEPT !.pc = "ret", !.j = 0, !.api = 0, !.todo = {}, !.cur = NoKey, !.t = 0,
               !.res = res]

\* The name GET /apis/{name} is called with: that of the record sent later.
ApiNameOf(b) == ApiName(b.host, Namespace, b.path)

\* The backend of the path the worker is at.
CurPath(wr) == PathsOf(wr.ing)[wr.j]

\* The end of the body of the loop over the paths (line 570): the next
\* path of the ingress, or return nil after the last (line 572).
AfterPath(wr) ==
    IF wr.j < Len(PathsOf(wr.ing))
    THEN [wr EXCEPT !.pc = "finalizer", !.j = @ + 1, !.api = 0, !.resp = Nil,
                    !.todo = {}, !.cur = NoKey, !.t = 0]
    ELSE IngRet(wr, "ok")

\* Line 565: TryAutoConfigureAuth0 is entered; without the annotation it
\* returns nil at once (lines 344-346).
EnterAuth0(wr) ==
    IF Auth0Host(wr.ing) = "" THEN AfterPath(wr)
    ELSE [wr EXCEPT !.pc = "pem", !.todo = {}, !.cur = NoKey, !.t = 0]

\* Line 559: TryConfigureCertificates is entered; without a TLS host it
\* returns nil at once.
EnterCerts(wr) ==
    IF CertsOf(wr.ing) = << >> THEN EnterAuth0(wr)
    ELSE [wr EXCEPT !.pc = "secret", !.todo = {}, !.cur = NoKey, !.t = 1]

\* The certificates are left out.
AfterPluginsNoCerts(wr) == EnterAuth0(wr)

\* ConfigurePluginsForAPI has visited every annotation (lines 299-300) and
\* the certificates are next (line 559).
AfterPlugins(wr) == EnterCerts(wr)

\* The annotations ConfigurePluginsForAPI acts on (line 241).
PluginAnnotations(ingress) == {a \in DOMAIN ingress.ann : HasPluginPrefix(a)}

\* Line 553: ConfigurePluginsForAPI(api.UID, ing) is entered.
EnterPlugins(wr, uid, resp) ==
    LET todo == PluginAnnotations(wr.ing) IN
    IF todo = {} THEN AfterPlugins([wr EXCEPT !.api = uid, !.resp = resp])
    ELSE [wr EXCEPT !.pc = "plugins", !.api = uid, !.resp = resp, !.todo = todo]

\* The record sent to the gateway without the UID of the API found.
apiBodyNoUid(b, found) ==
    [name |-> ApiNameOf(b),
     uid |-> 0,
     upstream |-> ingUpstream(b),
     hosts |-> IF b.host # "" THEN <<b.host>> ELSE << >>,
     uris |-> IF b.path # PEmpty THEN <<NormalizePath(b.path)>> ELSE << >>]

\* Lines 528-545: the record sent to the gateway; the UID of the API found
\* by name is carried over, which makes the call an update.
apiBody(b, found) ==
    [name |-> ApiNameOf(b),
     uid |-> found,
     upstream |-> ingUpstream(b),
     hosts |-> IF b.host # "" THEN <<b.host>> ELSE << >>,
     uris |-> IF b.path # PEmpty THEN <<NormalizePath(b.path)>> ELSE << >>]

\* numRequeues >= autoClaimMaxRetries: the comparison off by one.
DirtyDueLoose(ingress, numRequeues) ==
    numRequeues >= autoClaimMaxRetries /\ ~IsDirty(ingress)

\* Lines 431 and 656-659: setDirty is called and has a patch to send.
DirtyDue(ingress, numRequeues) ==
    numRequeues > autoClaimMaxRetries /\ ~IsDirty(ingress)

\* The error of setDirty is returned by syncIngress.
AfterSetDirtyReturnsError(wr, failed) == IF failed THEN IngRet(wr, "err") ELSE wr

\* Lines 433-436: the error of setDirty is logged and syncIngress goes on
\* as it does when setDirty succeeds or is not called.
AfterSetDirty(wr, failed) == wr

\* A worker of ingQueue (the first idle one, the workers being alike) takes
\* a key and syncIngress looks the ingress up
\* (lines 419-428): absent, it returns nil; so it does when no rule has a
\* path (lines 458-465).  Before the rules, with numRequeues above
\* autoClaimMaxRetries (lines 430-437), setDirty patches the annotation
\* kolihub.io/dirty onto the ingress unless the ingress read has it; the
\* patch may fail, or find the ingress gone, which is logged and nothing
\* more; when it succeeds the Update handler enqueues the key (lines
\* 106-113).
IngStart(w) ==
    /\ iw[w].pc = "idle"
    /\ run.phase = "running"
    /\ \A v \in Workers : v < w => iw[v].pc # "idle"
    /\ \E key \in ingQueue \ IngInFlight :
        /\ hist' = [hist EXCEPT !.hot =
                        IF ingRequeues[key] > autoClaimMaxRetries THEN @ \cup {key} ELSE @]
        /\ IF ing[key].exists /\ DirtyDue(ing[key], ingRequeues[key])
           THEN \/ /\ Fault
                   /\ ingQueue' = ingQueue \ {key}
                   /\ UNCHANGED ing
                \/ /\ NoFault
                   /\ ingQueue' = ingQueue
                   /\ ing' = [ing EXCEPT ![key] = WithDirty(@)]
           ELSE /\ NoFault
                /\ ingQueue' = ingQueue \ {key}
                /\ UNCHANGED ing
        /\ LET wr == [IdleIngWorker EXCEPT !.key = key, !.ing = ing[key]]
               failed == faults' # faults
           IN
            IF ~ing[key].exists \/ PathsOf(ing[key]) = << >>
            THEN iw' = [iw EXCEPT ![w] = AfterSetDirty(IngRet(wr, "ok"), failed)]
            ELSE iw' = [iw EXCEPT ![w] =
                          AfterSetDirty([wr EXCEPT !.pc = "finalizer", !.j = 1], failed)]
    /\ UNCHANGED <<svc, svcCache, gwApis, gwPlugins, nextUid, svcQueue,
                   ingRequeues, svcRequeues, ingResult, sw, edits, menu, run, gwAuth>>

\* The service is taken for found without a look at the store.
serviceExistsAlways(name) == TRUE

\* Lines 467-473: the store of the service informer holds a service of
\* that name in the namespace of the ingress.
serviceExists(name) == svcCache[name].exists

\* Line 478: the warning event recorded on the ingress; at is no part of
\* it: the position, among the paths of the ingress, of the path whose
\* service was looked for.
ServiceNotFound(key, name, at) ==
    [key |-> key, type |-> "Warning", reason |-> "ServiceNotFound", svc |-> name, at |-> at]

\* Lines 465-491: the backend service is looked for in the service store
\* (ServiceNotFound when it is not there), then patched with the finalizer.
IngFinalizer(w) ==
    /\ iw[w].pc = "finalizer"
    /\ LET s == CurPath(iw[w]).svc IN
        \/ /\ ~serviceExists(s)
           /\ NoFault
           /\ iw' = [iw EXCEPT ![w] = IngRet(iw[w], "err")]
           /\ hist' = [hist EXCEPT !.warn = @ \cup {ServiceNotFound(iw[w].key, s, iw[w].j)}]
           /\ UNCHANGED svc
        \/ /\ serviceExists(s)
           /\ Fault
           /\ iw' = [iw EXCEPT ![w] = IngRet(iw[w], "err")]
           /\ UNCHANGED <<svc, hist>>
        \/ /\ serviceExists(s)
           /\ NoFault
           /\ ~svc[s].exists
           /\ iw' = [iw EXCEPT ![w] = IngRet(iw[w], "err")]
           /\ UNCHANGED <<svc, hist>>
        \/ /\ serviceExists(s)
           /\ NoFault
           /\ svc[s].exists
           /\ svc' = [svc EXCEPT ![s].finalizers = @ \cup {Finalizer}]
           /\ iw' = [iw EXCEPT ![w].pc = "get", ![w].fin = @ \cup {s}]
           /\ UNCHANGED hist
    /\ UNCHANGED <<svcCache, ing, gwApis, gwPlugins, nextUid, ingQueue, svcQueue,
                   ingRequeues, svcRequeues, ingResult, sw, edits, menu,
                   run, gwAuth>>

\* GET /apis/{name}: the UID of the API of that name, 0 when there is none.
ApiGet(name) ==
    IF \E a \in gwApis : a.name = name
    THEN (CHOOSE a \in gwApis : a.name = name).uid
    ELSE 0

\* Lines 493-514: the API is looked up by its name; not found is tolerated.
IngGet(w) ==
    /\ iw[w].pc = "get"
    /\ \/ /\ Fault
          /\ iw' = [iw EXCEPT ![w] = IngRet(iw[w], "err")]
       \/ /\ NoFault
          /\ iw' = [iw EXCEPT ![w].pc = "upsert",
                              ![w].api = ApiGet(ApiNameOf(CurPath(iw[w])))]
    /\ UNCHANGED <<svc, svcCache, ing, gwApis, gwPlugins, nextUid, ingQueue, svcQueue,
                   ingRequeues, svcRequeues, ingResult, sw, edits, menu,
                   run, hist, gwAuth>>

\* PUT /apis: with a UID the record of that UID is replaced (not found
\* when there is none); without one a record is created, unless the name
\* is taken (conflict).
UpsertOutcome(body) ==
    IF body.uid # 0
    THEN IF \E a \in gwApis : a.uid = body.uid THEN "updated" ELSE "notfound"
    ELSE IF \E a \in gwApis : a.name = body.name THEN "conflict" ELSE "created"

\* A conflict ends the sync as any other error does.
UpsertFailsOnConflict(outcome) == outcome \in {"notfound", "conflict"}

\* Line 547: the response of UpdateOrCreate carries an error and the error
\* is not a conflict.
UpsertFails(outcome) == outcome = "notfound"

\* Lines 516-550: UpdateOrCreate; a conflict is not an error, and the
\* sync goes on to the plugins with the UID the call returned.
IngUpsert(w) ==
    /\ iw[w].pc = "upsert"
    /\ LET body == apiBody(CurPath(iw[w]), iw[w].api)
           outcome == UpsertOutcome(body)
       IN
        \/ /\ Fault
           /\ iw' = [iw EXCEPT ![w] = IngRet(iw[w], "err")]
           /\ UNCHANGED <<gwApis, nextUid>>
        \/ /\ NoFault
           /\ UpsertFails(outcome)
           /\ iw' = [iw EXCEPT ![w] = IngRet(iw[w], "err")]
           /\ UNCHANGED <<gwApis, nextUid>>
        \/ /\ NoFault
           /\ ~UpsertFails(outcome)
           /\ outcome = "conflict"
           /\ iw' = [iw EXCEPT ![w] = EnterPlugins(iw[w], 0, outcome)]
           /\ UNCHANGED <<gwApis, nextUid>>
        \/ /\ NoFault
           /\ outcome = "updated"
           /\ gwApis' = {a \in gwApis : a.uid # body.uid} \cup {body}
           /\ iw' = [iw EXCEPT ![w] = EnterPlugins(iw[w], body.uid, outcome)]
           /\ UNCHANGED nextUid
        \/ /\ NoFault
           /\ outcome = "created"
           /\ nextUid < MaxUid
           /\ nextUid' = nextUid + 1
           /\ gwApis' = gwApis \cup {[body EXCEPT !.uid = nextUid + 1]}
           /\ iw' = [iw EXCEPT ![w] = EnterPlugins(iw[w], nextUid + 1, outcome)]
    /\ UNCHANGED <<svc, svcCache, ing, gwPlugins, ingQueue, svcQueue,
                   ingRequeues, svcRequeues, ingResult, sw, edits, menu,
                   run, hist, gwAuth>>

\* The plugin is never found among those listed.
PluginFoundNever(uid, name) == FALSE

\* GET /apis/{uuid}/plugins: the plugins the gateway holds for the API.
PluginList(uid) == {p \in gwPlugins : p.api = uid}

\* POST /apis/{uuid}/plugins is refused when the gateway holds no such API
\* or already holds a plugin of that name for it.
PluginRefused(uid, name) ==
    \/ \A x \in gwApis : x.uid # uid
    \/ \E p \in gwPlugins : p.api = uid /\ p.name = name

\* Lines 283-290: the listed plugins are searched for one of that name.
PluginFound(uid, name) == \E p \in PluginList(uid) : p.name = name

\* Lines 240-290: an annotation is visited, in the order of the map's
\* iteration: an unrecognized name or a value that is not JSON ends the
\* sync; then the plugins of the API are listed.
IngPluginList(w) ==
    /\ iw[w].pc = "plugins"
    /\ \E a \in iw[w].todo :
        LET name == TrimPluginPrefix(a) IN
        \/ /\ name \notin RecognizedPlugins \/ ~JsonValid(iw[w].ing.ann[a])
           /\ NoFault
           /\ iw' = [iw EXCEPT ![w] = IngRet(iw[w], "err")]
        \/ /\ name \in RecognizedPlugins /\ JsonValid(iw[w].ing.ann[a])
           /\ \/ /\ Fault
                 /\ iw' = [iw EXCEPT ![w] = IngRet(iw[w], "err")]
              \/ /\ NoFault
                 /\ \A x \in gwApis : x.uid # iw[w].api
                 /\ iw' = [iw EXCEPT ![w] = IngRet(iw[w], "err")]
              \/ /\ NoFault
                 /\ \E x \in gwApis : x.uid = iw[w].api
                 /\ IF PluginFound(iw[w].api, name)
                    THEN iw' = [iw EXCEPT ![w] =
                                  IF iw[w].todo = {a} THEN AfterPlugins(iw[w])
                                  ELSE [iw[w] EXCEPT !.todo = @ \ {a}]]
                    ELSE iw' = [iw EXCEPT ![w].pc = "pcreate", ![w].cur = a]
    /\ UNCHANGED <<svc, svcCache, ing, gwApis, gwPlugins, nextUid, ingQueue, svcQueue,
                   ingRequeues, svcRequeues, ingResult, sw, edits, menu,
                   run, hist, gwAuth>>

\* The plugin is put in the place of the one the API has of that name.
IngPluginUpsert(w) ==
    /\ iw[w].pc = "pcreate"
    /\ LET a == iw[w].cur
           name == TrimPluginPrefix(a)
       IN
        \/ /\ Fault
           /\ iw' = [iw EXCEPT ![w] = IngRet(iw[w], "err")]
           /\ UNCHANGED gwPlugins
        \/ /\ NoFault
           /\ \A x \in gwApis : x.uid # iw[w].api
           /\ iw' = [iw EXCEPT ![w] = IngRet(iw[w], "err")]
           /\ UNCHANGED gwPlugins
        \/ /\ NoFault
           /\ \E x \in gwApis : x.uid = iw[w].api
           /\ gwPlugins' = {p \in gwPlugins : ~(p.api = iw[w].api /\ p.name = name)} \cup
                  {[api |-> iw[w].api, name |-> name, config |-> iw[w].ing.ann[a]]}
           /\ iw' = [iw EXCEPT ![w] =
                       IF iw[w].todo = {a} THEN AfterPlugins(iw[w])
                       ELSE [iw[w] EXCEPT !.pc = "plugins", !.todo = @ \ {a}, !.cur = NoKey]]
    /\ UNCHANGED <<svc, svcCache, ing, gwApis, nextUid, ingQueue, svcQueue,
                   ingRequeues, svcRequeues, ingResult, sw, edits, menu,
                   run, hist, gwAuth>>

\* Lines 291-297: the plugin was not found and is created.  The gateway
\* refuses a plugin for an API it does not hold and a second plugin of one
\* name on an API.
IngPluginCreate(w) ==
    /\ iw[w].pc = "pcreate"
    /\ LET a == iw[w].cur
           name == TrimPluginPrefix(a)
       IN
        \/ /\ Fault
           /\ iw' = [iw EXCEPT ![w] = IngRet(iw[w], "err")]
           /\ UNCHANGED gwPlugins
        \/ /\ NoFault
           /\ PluginRefused(iw[w].api, name)
           /\ iw' = [iw EXCEPT ![w] = IngRet(iw[w], "err")]
           /\ UNCHANGED gwPlugins
        \/ /\ NoFault
           /\ ~PluginRefused(iw[w].api, name)
           /\ gwPlugins' = gwPlugins \cup
                  {[api |-> iw[w].api, name |-> name, config |-> iw[w].ing.ann[a]]}
           /\ iw' = [iw EXCEPT ![w] =
                       IF iw[w].todo = {a} THEN AfterPlugins(iw[w])
                       ELSE [iw[w] EXCEPT !.pc = "plugins", !.todo = @ \ {a}, !.cur = NoKey]]
    /\ UNCHANGED <<svc, svcCache, ing, gwApis, nextUid, ingQueue, svcQueue,
                   ingRequeues, svcRequeues, ingResult, sw, edits, menu,
                   run, hist, gwAuth>>

\* Lines 306-315: the secret of the TLS entry is read; a secret that is not
\* there or is not a TLS secret ends the sync.
IngSecret(w) ==
    /\ iw[w].pc = "secret"
    /\ LET c == CertsOf(iw[w].ing)[iw[w].t] IN
        \/ /\ Fault
           /\ iw' = [iw EXCEPT ![w] = IngRet(iw[w], "err")]
        \/ /\ NoFault
           /\ c.secret \notin DOMAIN SecretTypes
           /\ iw' = [iw EXCEPT ![w] = IngRet(iw[w], "err")]
        \/ /\ NoFault
           /\ c.secret \in DOMAIN SecretTypes
           /\ SecretTypes[c.secret] # "kubernetes.io/tls"
           /\ iw' = [iw EXCEPT ![w] = IngRet(iw[w], "err")]
        \/ /\ NoFault
           /\ c.secret \in DOMAIN SecretTypes
           /\ SecretTypes[c.secret] = "kubernetes.io/tls"
           /\ iw' = [iw EXCEPT ![w].pc = "cert"]
    /\ UNCHANGED <<svc, svcCache, ing, gwApis, gwPlugins, nextUid, ingQueue, svcQueue,
                   ingRequeues, svcRequeues, ingResult, sw, edits, menu, run, gwAuth, hist>>

\* Lines 317-328: POST /certificates for the host, whether or not the
\* gateway has a certificate for it; the gateway may refuse one for a name
\* it has one for.  Then the next host, or the identity provider.
IngCertificate(w) ==
    /\ iw[w].pc = "cert"
    /\ LET c == CertsOf(iw[w].ing)[iw[w].t] IN
        \/ /\ Fault
           /\ iw' = [iw EXCEPT ![w] = IngRet(iw[w], "err")]
           /\ UNCHANGED gwAuth
        \/ /\ NoFault
           /\ c.host \in gwAuth.snis
           /\ iw' = [iw EXCEPT ![w] = IngRet(iw[w], "err")]
           /\ UNCHANGED gwAuth
        \/ /\ NoFault
           /\ gwAuth' = [gwAuth EXCEPT !.snis = @ \cup {c.host}]
           /\ iw' = [iw EXCEPT ![w] =
                       IF iw[w].t < Len(CertsOf(iw[w].ing))
                       THEN [iw[w] EXCEPT !.pc = "secret", !.t = @ + 1]
                       ELSE EnterAuth0(iw[w])]
    /\ UNCHANGED <<svc, svcCache, ing, gwApis, gwPlugins, nextUid, ingQueue, svcQueue,
                   ingRequeues, svcRequeues, ingResult, sw, edits, menu, run, hist>>

\* Lines 348-378: the certificate of the identity provider is fetched and
\* its public key encoded.
IngAuthPEM(w) ==
    /\ iw[w].pc = "pem"
    /\ \/ /\ Fault
          /\ iw' = [iw EXCEPT ![w] = IngRet(iw[w], "err")]
       \/ /\ NoFault
          /\ iw' = [iw EXCEPT ![w].pc = "consumer"]
    /\ UNCHANGED <<svc, svcCache, ing, gwApis, gwPlugins, nextUid, ingQueue, svcQueue,
                   ingRequeues, svcRequeues, ingResult, sw, edits, menu, run, gwAuth, hist>>

\* Lines 380-395: GET /consumers/{host}.  Not found leads to the creation
\* of the consumer; another failure ends the sync, with the error when the
\* call has a response to look at and with a panic at res.StatusCode (line
\* 382) when it has none, which ends the process.
IngAuthGetConsumer(w) ==
    /\ iw[w].pc = "consumer"
    /\ LET host == Auth0Host(iw[w].ing) IN
        \/ /\ Fault
           /\ iw' = [iw EXCEPT ![w] = IngRet(iw[w], "err")]
           /\ UNCHANGED run
        \/ /\ Fault
           /\ iw' = [iw EXCEPT ![w] = IngRet(iw[w], "panic")]
           /\ run' = [run EXCEPT !.phase = "crashed"]
        \/ /\ NoFault
           /\ iw' = [iw EXCEPT ![w].pc = IF host \in gwAuth.consumers THEN "jwtlist"
                                         ELSE "mkconsumer"]
           /\ UNCHANGED run
    /\ UNCHANGED <<svc, svcCache, ing, gwApis, gwPlugins, nextUid, ingQueue, svcQueue,
                   ingRequeues, svcRequeues, ingResult, sw, edits, menu, gwAuth, hist>>

\* Lines 383-390: POST /consumers; the gateway refuses a username it has.
IngAuthCreateConsumer(w) ==
    /\ iw[w].pc = "mkconsumer"
    /\ LET host == Auth0Host(iw[w].ing) IN
        \/ /\ Fault
           /\ iw' = [iw EXCEPT ![w] = IngRet(iw[w], "err")]
           /\ UNCHANGED gwAuth
        \/ /\ NoFault
           /\ host \in gwAuth.consumers
           /\ iw' = [iw EXCEPT ![w] = IngRet(iw[w], "err")]
           /\ UNCHANGED gwAuth
        \/ /\ NoFault
           /\ host \notin gwAuth.consumers
           /\ gwAuth' = [gwAuth EXCEPT !.consumers = @ \cup {host}]
           /\ iw' = [iw EXCEPT ![w].pc = "jwtlist"]
    /\ UNCHANGED <<svc, svcCache, ing, gwApis, gwPlugins, nextUid, ingQueue, svcQueue,
                   ingRequeues, svcRequeues, ingResult, sw, edits, menu, run, hist>>

\* GET /consumers/{host}/jwt: list.Total.
JwtTotal(host) == Cardinality({c \in gwAuth.creds : c.consumer = host})

\* Lines 397-401: the JWT credentials of the consumer are listed; with one
\* or more the path is done.
IngAuthListJWT(w) ==
    /\ iw[w].pc = "jwtlist"
    /\ LET host == Auth0Host(iw[w].ing) IN
        \/ /\ Fault
           /\ iw' = [iw EXCEPT ![w] = IngRet(iw[w], "err")]
        \/ /\ NoFault
           /\ iw' = [iw EXCEPT ![w] = IF JwtTotal(host) = 0
                                      THEN [iw[w] EXCEPT !.pc = "mkjwt"]
                                      ELSE AfterPath(iw[w])]
    /\ UNCHANGED <<svc, svcCache, ing, gwApis, gwPlugins, nextUid, ingQueue, svcQueue,
                   ingRequeues, svcRequeues, ingResult, sw, edits, menu, run, gwAuth, hist>>

\* Lines 402-413: POST /consumers/{host}/jwt; the gateway refuses a key
\* that a credential has.
IngAuthCreateJWT(w) ==
    /\ iw[w].pc = "mkjwt"
    /\ LET cred == JwtCredential(Auth0Host(iw[w].ing)) IN
        \/ /\ Fault
           /\ iw' = [iw EXCEPT ![w] = IngRet(iw[w], "err")]
           /\ UNCHANGED gwAuth
        \/ /\ NoFault
           /\ \E c \in gwAuth.creds : c.key = cred.key
           /\ iw' = [iw EXCEPT ![w] = IngRet(iw[w], "err")]
           /\ UNCHANGED gwAuth
        \/ /\ NoFault
           /\ \A c \in gwAuth.creds : c.key # cred.key
           /\ gwAuth' = [gwAuth EXCEPT !.creds = @ \cup {cred}]
           /\ iw' = [iw EXCEPT ![w] = AfterPath(iw[w])]
    /\ UNCHANGED <<svc, svcCache, ing, gwApis, gwPlugins, nextUid, ingQueue, svcQueue,
                   ingRequeues, svcRequeues, ingResult, sw, edits, menu, run, hist>>

\* syncIngress has returned: the queue forgets the key on nil and requeues
\* it, counting, on an error.
IngReturn(w) ==
    /\ iw[w].pc = "ret"
    /\ iw[w].res # "panic"
    /\ LET key == iw[w].key IN
        /\ ingResult' = [ingResult EXCEPT ![key] = iw[w].res]
        /\ IF iw[w].res = "ok"
           THEN /\ ingRequeues' = [ingRequeues EXCEPT ![key] = 0]
                /\ UNCHANGED ingQueue
           ELSE IF ingRequeues[key] < MaxRequeues
           THEN /\ ingRequeues' = [ingRequeues EXCEPT ![key] = @ + 1]
                /\ ingQueue' = ingQueue \cup {key}
           ELSE UNCHANGED <<ingRequeues, ingQueue>>
    /\ iw' = [iw EXCEPT ![w] = IdleIngWorker]
    /\ UNCHANGED <<svc, svcCache, ing, gwApis, gwPlugins, nextUid, svcQueue,
                   svcRequeues, sw, faults, edits, menu,
                   run, hist, gwAuth>>

\* ------------------------------------------------------------------- Run

\* The ingress informer lists the ingresses into its store, the Add handler
\* enqueues their keys (lines 98-105), and HasSynced turns true.  The
\* informer runs until the stop channel is closed (line 170).
IngInformerSync ==
    /\ ~run.ingSynced /\ ~run.stop
    /\ \E first \in menu :
        /\ ing' = [ing EXCEPT !["i1"] = first]
        /\ ingQueue' = ingQueue \cup {"i1"}
    /\ run' = [run EXCEPT !.ingSynced = TRUE]
    /\ UNCHANGED <<svc, svcCache, gwApis, gwPlugins, nextUid, svcQueue,
                   ingRequeues, svcRequeues, ingResult, iw, sw, faults, edits, menu,
                   hist, gwAuth>>

\* The service informer lists the services into its store, the Add handler
\* enqueues their keys (lines 142-144), and HasSynced turns true (line 171).
SvcInformerSync ==
    /\ ~run.svcSynced /\ ~run.stop
    /\ svcCache' = svc
    /\ svcQueue' = svcQueue \cup {s \in SvcKeys : svc[s].exists}
    /\ run' = [run EXCEPT !.svcSynced = TRUE]
    /\ UNCHANGED <<svc, ing, gwApis, gwPlugins, nextUid, ingQueue,
                   ingRequeues, svcRequeues, ingResult, iw, sw, faults, edits, menu,
                   hist, gwAuth>>

\* The stop channel is closed.
RunStop ==
    /\ ~run.stop
    /\ run' = [run EXCEPT !.stop = TRUE]
    /\ hist' = [hist EXCEPT !.early = ~(run.ingSynced /\ run.svcSynced)]
    /\ UNCHANGED <<svc, svcCache, ing, gwApis, gwPlugins, nextUid, ingQueue, svcQueue,
                   ingRequeues, svcRequeues, ingResult, iw, sw, faults, edits, menu, gwAuth>>

\* Only the ingress informer is waited for.
CachesSyncedIngOnly == run.ingSynced

\* The informers WaitForCacheSync is given (line 174).
CachesSynced == run.ingSynced /\ run.svcSynced

\* Lines 174-185: WaitForCacheSync returns.  True, once the informers have
\* synced: the workers of the three queues are started.  False, once the
\* stop channel is closed: Run returns, and its deferred calls shut the
\* three queues down (lines 166-168).  With both at hand either happens.
RunWait ==
    /\ run.phase = "waiting"
    /\ \/ /\ CachesSynced
          /\ run' = [run EXCEPT !.phase = "running", !.workers = AllQueues]
       \/ /\ run.stop
          /\ run' = [run EXCEPT !.phase = "returned", !.shutdown = AllQueues]
    /\ UNCHANGED <<svc, svcCache, ing, gwApis, gwPlugins, nextUid, ingQueue, svcQueue,
                   ingRequeues, svcRequeues, ingResult, iw, sw, faults, edits, menu,
                   hist, gwAuth>>

\* Lines 189-191: the stop channel is closed, Run returns, and its deferred
\* calls shut the three queues down (lines 166-168).
RunReturn ==
    /\ run.phase = "running"
    /\ run.stop
    /\ run' = [run EXCEPT !.phase = "returned", !.shutdown = AllQueues]
    /\ UNCHANGED <<svc, svcCache, ing, gwApis, gwPlugins, nextUid, ingQueue, svcQueue,
                   ingRequeues, svcRequeues, ingResult, iw, sw, faults, edits, menu,
                   hist, gwAuth>>

\* ---------------------------------------------------------- specification

\* The controller has started: the informers have synced, so the stores
\* hold the services and the ingresses and the Add handlers have enqueued
\* them.  Nothing is on the gateway yet.  Service s1 exists with one of the
\* port lists, service s2 does not; ingress i1 is one of firsts, ingress i2
\* one of seconds.
InitWith(portLists, firsts, seconds, events, nFaults, nEdits) ==
    /\ \E ports \in portLists :
        svc = [s \in SvcKeys |-> IF s = "s1" THEN LiveSvc(ports) ELSE NoSvc]
    /\ svcCache = svc
    /\ \E first \in firsts, second \in seconds :
        ing = [k \in IngKeys |-> IF k = "i1" THEN first ELSE second]
    /\ gwApis = {}
    /\ gwPlugins = {}
    /\ nextUid = 0
    /\ ingQueue = {k \in IngKeys : ing[k].exists}
    /\ svcQueue = {s \in SvcKeys : svc[s].exists}
    /\ ingRequeues = [k \in IngKeys |-> 0]
    /\ svcRequeues = [s \in SvcKeys |-> 0]
    /\ ingResult = [k \in IngKeys |-> Nil]
    /\ iw = [w \in Workers |-> IdleIngWorker]
    /\ sw = [w \in Workers |-> IdleSvcWorker]
    /\ faults = nFaults
    /\ edits = nEdits
    /\ menu = events
    /\ run = Running
    /\ gwAuth = NoAuth
    /\ hist = NoHist

\* The steps of the workers of svcQueue.
SvcSteps ==
    \/ \E w \in Workers : SvcStart(w)
    \/ \E w \in Workers : SvcList(w)
    \/ \E w \in Workers : SvcDelete(w)
    \/ \E w \in Workers : SvcPatch(w)
    \/ \E w \in Workers : SvcReturn(w)

\* The steps of the workers of ingQueue on an ingress without plugins.
IngSteps ==
    \/ \E w \in Workers : IngStart(w)
    \/ \E w \in Workers : IngFinalizer(w)
    \/ \E w \in Workers : IngGet(w)
    \/ \E w \in Workers : IngUpsert(w)
    \/ \E w \in Workers : IngReturn(w)

\* The steps of ConfigurePluginsForAPI.
PluginSteps ==
    \/ \E w \in Workers : IngPluginList(w)
    \/ \E w \in Workers : IngPluginCreate(w)

\* The steps of TryConfigureCertificates.
CertSteps ==
    \/ \E w \in Workers : IngSecret(w)
    \/ \E w \in Workers : IngCertificate(w)

\* The steps of TryAutoConfigureAuth0.
AuthSteps ==
    \/ \E w \in Workers : IngAuthPEM(w)
    \/ \E w \in Workers : IngAuthGetConsumer(w)
    \/ \E w \in Workers : IngAuthCreateConsumer(w)
    \/ \E w \in Workers : IngAuthListJWT(w)
    \/ \E w \in Workers : IngAuthCreateJWT(w)

\* The deletion of a service, as the orchestrator and the informer see it.
SvcEvents ==
    \/ \E s \in SvcKeys : DeleteService(s)
    \/ \E s \in SvcKeys : ReapService(s)
    \/ \E s \in SvcKeys : ServiceEvent(s)

\* Garbage collection against ingress sync: one ingress without plugins, a
\* service that may be deleted at any time, calls that may fail.
Init == InitWith(PortLists, {IngA, IngRoot, IngTwo}, {NoIngress}, {}, MaxFaults, 0)

Next == SvcSteps \/ IngSteps \/ SvcEvents

Spec == Init /\ [][Next]_vars

\* The race of one ingress sync with the garbage collection of its backend
\* service: the service has the one port the ingress names, no call fails.
InitRace == InitWith({<<80>>}, {IngA}, {NoIngress}, {}, 0, 0)

SpecRace == InitRace /\ [][Next]_vars

\* Two ingresses of one host whose paths are "" and "/", synced by two
\* workers while the service may be deleted.
InitPair == InitWith({<<80>>}, {IngEmpty}, {IngRoot}, {}, MaxFaults, 0)

SpecPair == InitPair /\ [][Next]_vars

\* An ingress with two paths, synced, and synced again after a change of
\* its resource version, while the service may be deleted.
InitRules == InitWith({<<80>>}, {IngMixed}, {NoIngress}, {}, MaxFaults, MaxEdits)

NextRules == Next \/ \E k \in IngKeys : IngressTouch(k)

SpecRules == InitRules /\ [][NextRules]_vars

\* Ingress sync alone, run again after a change of the resource version
\* only: one ingress, the service stays, calls may fail.
InitTwice ==
    InitWith({<<80, 443>>}, {IngTwo, IngPlug, IngPlug2}, {NoIngress}, {}, MaxFaults, MaxEdits)

NextTwice == IngSteps \/ PluginSteps \/ \E k \in IngKeys : IngressTouch(k)

SpecTwice == InitTwice /\ [][NextTwice]_vars

\* An ingress that changes or goes: the service stays, calls may fail.
InitEdit == InitWith({<<80, 443>>}, {IngA, IngRoot}, {NoIngress}, {IngRoot}, MaxFaults, MaxEdits)

NextEdit == IngSteps \/ \E k \in IngKeys : IngressChange(k)

SpecEdit == InitEdit /\ [][NextEdit]_vars

\* Ingresses with plugin annotations, of one host and path, synced by two
\* workers; the service stays, calls may fail.
InitPlug ==
    InitWith({<<80>>}, {IngPlug, IngBare}, {NoIngress, IngPlug2}, {}, MaxFaults, 0)

NextPlug == IngSteps \/ PluginSteps

SpecPlug == InitPlug /\ [][NextPlug]_vars

\* An ingress whose cors annotation changes its value, and another ingress
\* of the same host and path: the service stays, calls may fail.
InitValue ==
    InitWith({<<80>>}, {IngCors1}, {NoIngress, IngPlug2}, {IngPlug2}, MaxFaults, MaxEdits)

NextValue == IngSteps \/ PluginSteps \/ \E k \in IngKeys : IngressChange(k)

SpecValue == InitValue /\ [][NextValue]_vars

\* An ingress whose sync fails every time (a backend service is missing)
\* and one whose sync fails only when a call does.
InitDirty == InitWith({<<80>>}, {IngLost, IngA}, {NoIngress, IngLost}, {}, MaxFaults, 0)

SpecDirty == InitDirty /\ [][IngSteps]_vars

\* Run from its first line: the stores and the queues are empty, service
\* s1 exists, the ingress informer will list one of two ingresses, and the
\* stop channel may be closed at any time.
InitRun ==
    /\ svc = [s \in SvcKeys |-> IF s = "s1" THEN LiveSvc(<<80>>) ELSE NoSvc]
    /\ svcCache = [s \in SvcKeys |-> NoSvc]
    /\ ing = [k \in IngKeys |-> NoIngress]
    /\ gwApis = {}
    /\ gwPlugins = {}
    /\ nextUid = 0
    /\ ingQueue = {}
    /\ svcQueue = {}
    /\ ingRequeues = [k \in IngKeys |-> 0]
    /\ svcRequeues = [s \in SvcKeys |-> 0]
    /\ ingResult = [k \in IngKeys |-> Nil]
    /\ iw = [w \in Workers |-> IdleIngWorker]
    /\ sw = [w \in Workers |-> IdleSvcWorker]
    /\ faults = MaxFaults
    /\ edits = 0
    /\ menu = {IngA, IngTwo}
    /\ run = Waiting
    /\ gwAuth = NoAuth
    /\ hist = NoHist

RunSteps ==
    \/ IngInformerSync
    \/ SvcInformerSync
    \/ RunStop
    \/ RunWait
    \/ RunReturn

NextRun ==
    \/ RunSteps
    \/ IngSteps
    \/ \E w \in Workers : SvcStart(w)
    \/ \E w \in Workers : SvcReturn(w)

\* WaitForCacheSync returns once the stop channel is closed, and so does
\* the receive of line 189.
SpecRun == InitRun /\ [][NextRun]_vars /\ WF_vars(RunWait) /\ WF_vars(RunReturn)

\* The watch events of ingresses and the deletion of a service, while the
\* workers of both queues run: an ingress of class kong or of another, and
\* events that deliver one of class kong, of another class or of none.
InitEvents ==
    InitWith({<<80>>}, {IngA, IngOther}, {NoIngress}, {IngA, IngOther, IngNoClass},
             0, MaxEdits)

WatchEvents ==
    \/ \E k \in IngKeys : IngressAdded(k)
    \/ \E k \in IngKeys : IngressUpdated(k)
    \/ \E k \in IngKeys : IngressDeleted(k)
    \/ \E s \in SvcKeys : ServiceDeleted(s)

NextEvents ==
    \/ WatchEvents
    \/ IngSteps
    \/ \E s \in SvcKeys : DeleteService(s)
    \/ \E w \in Workers : SvcStart(w)
    \/ \E w \in Workers : SvcReturn(w)

SpecEvents == InitEvents /\ [][NextEvents]_vars

\* Ingresses annotated with the host of the identity provider, with two
\* paths, one and none, synced by two workers and synced again; calls fail.
InitAuth ==
    InitWith({<<80>>}, {IngAuth2, IngAuthBare}, {NoIngress, IngAuth1}, {},
             MaxFaults, MaxEdits)

NextAuth == IngSteps \/ AuthSteps \/ \E k \in IngKeys : IngressTouch(k)

SpecAuth == InitAuth /\ [][NextAuth]_vars

\* Service s1 with ports of UrlPorts, an ingress whose backend is s1 at a
\* port of UrlPorts, and the deletion of the service: both syncs compute
\* upstream URLs.  No call fails.
InitUrl ==
    InitWith({<<80>>, <<443>>, <<8443>>, <<443, 80>>}, {IngPort(p) : p \in UrlPorts},
             {NoIngress}, {}, 0, 0)

SpecUrl == InitUrl /\ [][Next]_vars

\* An ingress of two paths with a plugin annotation, a TLS section and the
\* host of the identity provider, synced and synced again; calls fail, and
\* so may the second secret.
InitOrder ==
    InitWith({<<80>>}, {IngFull, IngFullOpaque}, {NoIngress}, {}, MaxFaults, MaxEdits)

NextOrder ==
    \/ IngSteps
    \/ PluginSteps
    \/ CertSteps
    \/ AuthSteps
    \/ \E k \in IngKeys : IngressTouch(k)

SpecOrder == InitOrder /\ [][NextOrder]_vars

\* Two ingresses of one host and path, with a TLS section and the identity
\* provider's host, one of them with a plugin, synced by two workers: the
\* second to send its API finds the name taken.  Calls may fail.
InitConflict ==
    InitWith({<<80>>}, {IngSecure}, {IngSecure, IngSecurePlug}, {}, MaxFaults, 0)

NextConflict == IngSteps \/ PluginSteps \/ CertSteps \/ AuthSteps

SpecConflict == InitConflict /\ [][NextConflict]_vars

\* Both syncs on keys whose objects may be gone: an ingress that may be
\* deleted or put back, a service that may be deleted at any time; no
\* call fails.
InitAbsent == InitWith({<<80>>}, {IngA}, {NoIngress}, {IngA}, 0, MaxEdits)

NextAbsent == Next \/ \E k \in IngKeys : IngressChange(k)

SpecAbsent == InitAbsent /\ [][NextAbsent]_vars

\* Garbage collection of a service with two ports, the second named by an
\* ingress, while a service of the same name may be created anew; no call
\* fails.
InitReborn == InitWith({<<80, 443>>}, {IngRoot}, {NoIngress}, {}, 0, MaxEdits)

NextReborn == Next \/ \E s \in SvcKeys : RecreateService(s)

SpecReborn == InitReborn /\ [][NextReborn]_vars

\* Garbage collection with the workers scheduled: a service of any port
\* list, an ingress that names it, and no call that fails.
\* Each worker goroutine (lines 179-185) that can take a step takes one,
\* the informer delivers the changes of a service (lines 131-145), and the
\* orchestrator removes a deleted service whose finalizers are empty.
InitCollect == InitWith(PortLists, {IngA}, {NoIngress}, {}, 0, 0)

SvcWorker(w) == SvcStart(w) \/ SvcList(w) \/ SvcDelete(w) \/ SvcPatch(w) \/ SvcReturn(w)

IngWorker(w) == IngStart(w) \/ IngFinalizer(w) \/ IngGet(w) \/ IngUpsert(w) \/ IngReturn(w)

FairCollect ==
    /\ \A w \in Workers : WF_vars(SvcWorker(w)) /\ WF_vars(IngWorker(w))
    /\ \A s \in SvcKeys : WF_vars(ServiceEvent(s)) /\ WF_vars(ReapService(s))

SpecCollect == InitCollect /\ [][Next]_vars /\ FairCollect

\* ------------------------------------------------------------ properties

\* The upstream URLs syncServices lists for a service with these ports.
ListedUpstreams(s, ports) == {svcUpstream(s, ports[i]) : i \in DOMAIN ports}

\* The gateway APIs that point at a service, whatever the port.
ApisOfService(apis, s) == {a \in apis : a.upstream.svc = s /\ a.upstream.ns = Namespace}

\* C1: when syncServices returns nil for a service with a deletion
\* timestamp, whatever the number of its ports, no gateway API has an
\* upstream URL of a port of the service and the service has no finalizers.
\* (A sync that finds no port returns from SvcStart.)
C1_GcSuccessCleans ==
    [][\A w \in Workers :
        (sw[w].pc # "ret" /\ sw'[w].pc = "ret" /\ sw'[w].res = "ok" /\ sw'[w].deleting)
        => /\ \A a \in gwApis' :
                a.upstream \notin ListedUpstreams(sw'[w].key, sw'[w].ports)
           /\ svc'[sw'[w].key].finalizers = {}]_vars

\* C2: the patch that empties the finalizers is issued only when the APIs
\* of every port of the service have been listed and deleted: the port the
\* worker is at is the last one.
C2_PatchAfterAllPorts ==
    [][\A w \in Workers :
        (sw[w].pc = "patch" /\ sw'[w] # sw[w]) => sw[w].i = Len(sw[w].ports)]_vars

\* C3: when a list or a delete call fails, for any port, syncServices
\* returns an error and the service still carries the cleanup finalizer.
C3_GcFailureKeepsFinalizer ==
    [][\A w \in Workers :
        (sw[w].pc \in {"list", "delete"} /\ sw'[w].pc = "ret")
        => /\ sw'[w].res = "err"
           /\ Finalizer \in svc'[sw[w].key].finalizers]_vars

\* C4: the upstream URL of every gateway API that syncIngress created for a
\* backend of service S is one syncServices lists when it collects S; so
\* when syncServices returns nil for a deleted S, no gateway API of S is left.
C4_CreatedApisAreListed ==
    [][/\ \A a \in gwApis' :
            svc'[a.upstream.svc].exists
            => a.upstream \in ListedUpstreams(a.upstream.svc, svc'[a.upstream.svc].ports)
       /\ \A w \in Workers :
            (sw[w].pc # "ret" /\ sw'[w].pc = "ret" /\ sw'[w].res = "ok" /\ sw'[w].deleting)
            => ApisOfService(gwApis', sw'[w].key) = {}]_vars

\* C5: in every reachable state a service that does not carry the cleanup
\* finalizer has no gateway API pointing at its upstream.
C5_NoFinalizerNoApis ==
    \A s \in SvcKeys : Finalizer \notin svc[s].finalizers => ApisOfService(gwApis, s) = {}

\* Worker w of ingQueue returns nil from syncIngress in this step.
IngReturnsOk(w) == iw[w].pc # "ret" /\ iw'[w].pc = "ret" /\ iw'[w].res = "ok"

\* The name the specification gives the API of a rule:
\* host~namespace~adler32(normalize(path)), normalize("") = "/".
ExpectedName(host, path) ==
    [host |-> host, ns |-> Namespace,
     hash |-> GenAdler32Hash(IF path = << >> THEN <<47>> ELSE path)]

\* The rules (host, path) of the ingress a worker has synced, each with
\* exactly one gateway API of its name among apis.
OneApiPerRule(ingress, apis) ==
    \A j \in DOMAIN PathsOf(ingress) :
        Cardinality({a \in apis :
            a.name = ExpectedName(PathsOf(ingress)[j].host, PathsOf(ingress)[j].path)}) = 1

\* C6: when syncIngress returns nil, exactly one gateway API exists with
\* the name of each rule (host, path) of the ingress.  A service sync that
\* collects the APIs of a backend service being deleted breaks it.
C6_OneApiPerRuleAtReturn ==
    [][\A w \in Workers : IngReturnsOk(w) => OneApiPerRule(iw'[w].ing, gwApis')]_vars

\* What holds of C6 apart from that race: when syncIngress returns nil and
\* no service sync deleted a gateway API while it ran, exactly one gateway
\* API exists with the name of each rule (host, path) of the ingress,
\* whether the API was created or updated in place.
C6_OneApiPerRuleUnlessCollected ==
    [][\A w \in Workers :
        (IngReturnsOk(w) /\ ~iw'[w].gc) => OneApiPerRule(iw'[w].ing, gwApis')]_vars

\* A second sync of the ingress with two paths (one of them "") has
\* returned nil, no API was deleted meanwhile, and the API of its last path
\* was updated in place.
C6_Witness ==
    \E w \in Workers :
        /\ iw[w].pc = "ret" /\ iw[w].res = "ok" /\ ~iw[w].gc
        /\ iw[w].ing = IngMixed
        /\ iw[w].resp = "updated"
        /\ Cardinality(gwApis) = 2

\* The gateway APIs of the root of a host: no URI, or the URI "/".
RootApis(apis, host) == {a \in apis : a.hosts = <<host>> /\ a.uris \in {<< >>, <<PRoot>>}}

\* C9: the paths "" and "/" of one host and namespace give the same API
\* name, and an upsert for such a path that finds the API of the other
\* ingress does not add a record: the root of the host keeps one record
\* with the UID it had, and when the UID read by the sync is that UID the
\* record now holds the upstream of this ingress.
C9_RootPathsUpdateInPlace ==
    [][\A w \in Workers :
        LET b == CurPath(iw[w]) IN
        (/\ iw[w].pc = "upsert"
         /\ iw'[w].pc # "upsert"
         /\ ~(iw'[w].pc = "ret" /\ iw'[w].res = "err")
         /\ b.path \in {PEmpty, PRoot})
        => /\ ApiName(b.host, Namespace, PEmpty) = ApiName(b.host, Namespace, PRoot)
           /\ Cardinality(RootApis(gwApis', b.host)) = 1
           /\ \A old \in RootApis(gwApis, b.host) : \A new \in RootApis(gwApis', b.host) :
                /\ new.uid = old.uid
                /\ iw[w].api = old.uid => new.upstream = ingUpstream(b)]_vars

\* C9 witness: the ingress with path "" has been synced, and the sync of the
\* ingress with path "/" has updated the one record in place.
C9_Witness ==
    \E w \in Workers :
        /\ iw[w].pc = "ret" /\ iw[w].res = "ok"
        /\ iw[w].ing = IngRoot /\ iw[w].resp = "updated"
        /\ ing["i1"] = IngEmpty /\ ingResult["i1"] = "ok"
        /\ \E a \in gwApis : gwApis = {a} /\ a.upstream = ingUpstream(PathsOf(IngRoot)[1])

\* The name and UID of every gateway API.
ApiIds(apis) == {<<a.name, a.uid>> : a \in apis}

\* C7 as stated (for the behaviours in which no call has failed): a run of
\* syncIngress that follows a completed run of the same ingress, with no
\* change in between, creates no API, changes no UID and leaves the plugins
\* as they are.
C7_RerunChangesNothing ==
    [][\A k \in IngKeys :
        (ingResult[k] # Nil /\ faults' = MaxFaults)
        => ApiIds(gwApis') = ApiIds(gwApis) /\ gwPlugins' = gwPlugins]_vars

\* C7 as amended: once a run of syncIngress has returned nil, a later run
\* of the same ingress, with no change in between, creates no API, changes
\* no UID and leaves the plugins as they are; and when no call fails it
\* returns nil again.
C7_RerunAfterSuccessChangesNothing ==
    [][\A k \in IngKeys :
        ingResult[k] = "ok"
        => /\ ApiIds(gwApis') = ApiIds(gwApis)
           /\ gwPlugins' = gwPlugins
           /\ \A w \in Workers :
                (iw[w].pc # "ret" /\ iw'[w].pc = "ret" /\ iw'[w].key = k /\ faults' = MaxFaults)
                => iw'[w].res = "ok"]_vars

\* C7 witness: the second run of an ingress with two plugin annotations has
\* returned nil after the first did, the API and both plugins in place.
C7_Witness ==
    \E w \in Workers :
        /\ iw[w].pc = "ret" /\ iw[w].res = "ok"
        /\ iw[w].ing = IngPlug2
        /\ ingResult[iw[w].key] = "ok"
        /\ Cardinality(gwApis) = 1 /\ Cardinality(gwPlugins) = 2

\* No ingress is queued or in flight, every ingress was synced with success,
\* and no service is being synced or deleted.
Quiescent ==
    /\ ingQueue = {}
    /\ \A w \in Workers : iw[w].pc = "idle" /\ sw[w].pc = "idle"
    /\ \A s \in SvcKeys : svc[s].exists => ~svc[s].deleting
    /\ \A k \in IngKeys : ingRequeues[k] = 0 /\ (ing[k].exists => ingResult[k] = "ok")

\* C8: once every queued key has been synced with success, the gateway APIs
\* are those the current ingresses ask for (what a sync of these ingresses
\* against an empty gateway gives), whatever the ingresses were before.
C8_GatewayIsFunctionOfResources ==
    Quiescent =>
        {a.name : a \in gwApis} =
            {ExpectedName(b.host, b.path) :
                b \in UNION {{PathsOf(ing[k])[j] : j \in DOMAIN PathsOf(ing[k])} : k \in IngKeys}}

\* The ingress has a plugin annotation with an unrecognized name.
HasUnknownPlugin(ingress) ==
    \E a \in DOMAIN ingress.ann :
        a.prefix = "kolihub.io/plugin-"
        /\ a.rest \notin {"key-auth", "cors", "jwt", "rate-limiting"}

\* C10 as stated: a sync of an ingress with a plugin annotation of an
\* unrecognized name (and a path to sync) does not return nil and creates
\* no gateway plugin, whatever the other annotations and the order of the
\* visit; and no plugin of an unrecognized name ever exists.
C10_UnknownPluginCreatesNothing ==
    [][/\ \A w \in Workers :
            (HasUnknownPlugin(iw'[w].ing) /\ iw'[w] # iw[w] /\ iw'[w].pc # "idle")
            => /\ gwPlugins' = gwPlugins
               /\ (iw'[w].pc = "ret" /\ PathsOf(iw'[w].ing) # << >>) => iw'[w].res = "err"
       /\ \A p \in gwPlugins' : p.name \in {"key-auth", "cors", "jwt", "rate-limiting"}]_vars

\* C10 as amended: a sync of an ingress with a plugin annotation of an
\* unrecognized name returns an error when the ingress has a path to sync
\* (it returns nil when it has none), and no plugin of an unrecognized name
\* is ever created; the plugins of the recognized annotations visited
\* before the unrecognized one may be created by that sync.
C10_UnknownPluginFailsSync ==
    [][/\ \A w \in Workers :
            (HasUnknownPlugin(iw'[w].ing) /\ iw[w].pc # "ret" /\ iw'[w].pc = "ret")
            => (iw'[w].res = "err" <=> PathsOf(iw'[w].ing) # << >>)
       /\ \A p \in gwPlugins' : p.name \in {"key-auth", "cors", "jwt", "rate-limiting"}]_vars

\* C10 witness: the sync of the ingress annotated with cors and foo has
\* returned an error, after it created the cors plugin.
C10_Witness ==
    \E w \in Workers :
        /\ iw[w].pc = "ret" /\ iw[w].res = "err"
        /\ iw[w].ing = IngPlug
        /\ ing["i2"] = NoIngress
        /\ \E p \in gwPlugins : p.name = "cors"

IngReturns(w) == iw[w].pc # "ret" /\ iw'[w].pc = "ret"

\* C12 as stated, looked at when a sync returns: the ingress carries the
\* dirty annotation if and only if syncIngress has been invoked for its key
\* with numRequeues greater than autoClaimMaxRetries.
C12_DirtyIffRetriesExceeded ==
    [][\A w \in Workers :
        (IngReturns(w) /\ ing'[iw'[w].key].exists)
        => (IsDirty(ing'[iw'[w].key]) <=> iw'[w].key \in hist'.hot)]_vars

\* C12 as amended: an ingress is dirty only if syncIngress has been invoked
\* for its key with numRequeues greater than autoClaimMaxRetries; such an
\* invocation for an ingress in the store leaves it dirty when the patch
\* does not fail; and no sync removes the annotation.
C12_DirtyOnlyAfterRetriesExceeded ==
    [][/\ \A k \in IngKeys : IsDirty(ing'[k]) => k \in hist'.hot
       /\ \A w \in Workers :
            (/\ iw[w].pc = "idle" /\ iw'[w].pc # "idle"
             /\ ing[iw'[w].key].exists
             /\ ingRequeues[iw'[w].key] > autoClaimMaxRetries
             /\ faults' = faults)
            => IsDirty(ing'[iw'[w].key])
       /\ \A k \in IngKeys : IsDirty(ing[k]) => IsDirty(ing'[k])]_vars

\* C12 witness: the ingress with the missing backend service has been set
\* dirty by its third sync, which has returned an error.
C12_Witness ==
    \E w \in Workers :
        /\ iw[w].pc = "ret" /\ iw[w].res = "err"
        /\ iw[w].ing = IngLost
        /\ ingRequeues[iw[w].key] = 2
        /\ IsDirty(ing[iw[w].key])
        /\ iw[w].key \in hist.hot

\* A worker of ingQueue or svcQueue is in a sync or has returned from one.
WorkerStarted ==
    \/ run.workers # {}
    \/ \E w \in Workers : iw[w].pc # "idle" \/ sw[w].pc # "idle"

\* C13: no worker of a queue is started before both the ingress and the
\* service informer have synced; when the stop channel is closed before
\* they have, no worker is ever started, and the three queues are shut down.
C13_WorkersAfterSyncOrShutdown ==
    /\ [](WorkerStarted => (run.ingSynced /\ run.svcSynced))
    /\ [](hist.early => ~WorkerStarted)
    /\ (hist.early ~> (run.shutdown = AllQueues))

\* C13 witness: the stop channel was closed with one informer synced and
\* the other not, and Run has returned.
C13_Witness ==
    /\ hist.early
    /\ run.ingSynced /\ ~run.svcSynced
    /\ run.phase = "returned"
    /\ ingQueue # {}

\* C13, the other case: the workers were started after both informers had
\* synced and a sync has run.
C13_WitnessStarted ==
    /\ run.workers = AllQueues
    /\ ~hist.early
    /\ \E w \in Workers : iw[w].pc = "ret"

IngressEvent == edits' # edits /\ hist'.ev.kind \in {"add", "update", "delete"}

\* C15: an Add or a Delete event of an ingress of class kong always puts
\* its key in ingQueue; an Update event puts it there if and only if the
\* resource version changed and the new object is of class kong; an event
\* of an ingress of another class puts nothing there.
C15_IngressEventsEnqueue ==
    [][IngressEvent =>
        LET e == hist'.ev IN
        /\ (e.kind \in {"add", "delete"} /\ e.kong) => e.key \in ingQueue'
        /\ (e.kind = "update" /\ e.key \notin ingQueue)
             => (e.key \in ingQueue' <=> (e.changed /\ e.kong))
        /\ (~e.kong /\ e.key \notin ingQueue) => e.key \notin ingQueue'
        /\ ingQueue \subseteq ingQueue']_vars

\* C15 without the tombstones: the same of the events that deliver an
\* object.
C15_LiveIngressEventsEnqueue ==
    [][(IngressEvent /\ ~hist'.ev.tomb) =>
        LET e == hist'.ev IN
        /\ (e.kind \in {"add", "delete"} /\ e.kong) => e.key \in ingQueue'
        /\ (e.kind = "update" /\ e.key \notin ingQueue)
             => (e.key \in ingQueue' <=> (e.changed /\ e.kong))
        /\ (~e.kong /\ e.key \notin ingQueue) => e.key \notin ingQueue'
        /\ ingQueue \subseteq ingQueue']_vars

\* A Delete handler is called with a tombstone in this step.
TombstoneEvent == edits' # edits /\ hist'.ev.tomb

\* C16: a Delete event that delivers a tombstone, of an ingress (of class
\* kong) or of a service, is handled without a panic and leaves the key of
\* the object in the queue of its kind.
C16_TombstoneEnqueued ==
    [][TombstoneEvent =>
        LET e == hist'.ev IN
        /\ run'.phase # "crashed"
        /\ e.kind = "delete" /\ e.kong => e.key \in ingQueue'
        /\ e.kind = "svcdelete" => e.key \in svcQueue']_vars

\* C16, the half that holds: a tombstone of a service leaves the key of
\* the service in svcQueue, and nothing panics.
C16_ServiceTombstoneEnqueued ==
    [][(TombstoneEvent /\ hist'.ev.kind = "svcdelete") =>
        (run'.phase # "crashed" /\ hist'.ev.key \in svcQueue')]_vars

\* The gateway holds the consumer host and, of it, the one credential
\* TryAutoConfigureAuth0 creates and no other.
Auth0ConfiguredIn(auth, host) ==
    /\ host \in auth.consumers
    /\ {c \in auth.creds : c.consumer = host}
         = {[consumer |-> host, algorithm |-> "RS256",
             key |-> [scheme |-> "https", host |-> host, path |-> "/"]]}

\* GetConsumer fails in this step of worker w.
GetConsumerFails(w) == iw[w].pc = "consumer" /\ iw'[w] # iw[w] /\ faults' # faults

\* C17 as stated: when a sync of an ingress annotated with the host H has
\* returned nil, whatever the number of its paths, the gateway holds the
\* consumer H with exactly one JWT credential, RS256 with key https://H/;
\* and a failure of GetConsumer other than not-found ends the sync without
\* success and with no consumer or credential created.
C17_Auth0ConsumerAndCredential ==
    [][/\ \A w \in Workers :
            (iw'[w].pc = "ret" /\ iw'[w].res = "ok" /\ Auth0Host(iw'[w].ing) # "")
            => Auth0ConfiguredIn(gwAuth', Auth0Host(iw'[w].ing))
       /\ \A w \in Workers :
            GetConsumerFails(w)
            => (iw'[w].pc = "ret" /\ iw'[w].res # "ok" /\ gwAuth' = gwAuth)]_vars

\* C17 as amended: the same for an ingress with at least one path.
C17_Auth0ConfiguredWhenPaths ==
    [][/\ \A w \in Workers :
            (/\ iw'[w].pc = "ret" /\ iw'[w].res = "ok"
             /\ Auth0Host(iw'[w].ing) # ""
             /\ PathsOf(iw'[w].ing) # << >>)
            => Auth0ConfiguredIn(gwAuth', Auth0Host(iw'[w].ing))
       /\ \A w \in Workers :
            GetConsumerFails(w)
            => (iw'[w].pc = "ret" /\ iw'[w].res # "ok" /\ gwAuth' = gwAuth)]_vars

\* C17 witness: the ingress with two paths has been synced with success a
\* second time, after another ingress of the same host, and the gateway
\* holds the consumer and its one credential.
C17_Witness ==
    \E w \in Workers :
        /\ iw[w].pc = "ret" /\ iw[w].res = "ok"
        /\ iw[w].ing = IngAuth2
        /\ ingResult[iw[w].key] = "ok"
        /\ ingResult["i2"] = "ok" /\ ing["i2"] = IngAuth1
        /\ Auth0ConfiguredIn(gwAuth, "idp")

\* proto://svcName.namespace.clusterDNS:port with https for 443 only.
ExpectedUpstream(svcName, port) ==
    [proto |-> IF port = 443 THEN "https" ELSE "http",
     svc |-> svcName, ns |-> Namespace, dns |-> ClusterDNS, port |-> port]

\* C18: the upstream URL of syncIngress and that of syncServices for a
\* service and port are the same, proto://svcName.namespace.clusterDNS:port
\* with proto https if and only if the port is 443; so the APIs on the
\* gateway have such upstreams and are those syncServices lists for.
C18_SameUpstreamUrl ==
    /\ \A s \in SvcKeys, port \in UrlPorts :
        /\ svcUpstream(s, port) = ExpectedUpstream(s, port)
        /\ ingUpstream(Backend(PA, s, port)) = ExpectedUpstream(s, port)
        /\ (svcUpstream(s, port).proto = "https") <=> (port = 443)
    /\ \A a \in gwApis :
        /\ a.upstream = ExpectedUpstream(a.upstream.svc, a.upstream.port)
        /\ a.name \in ApiList(svcUpstream(a.upstream.svc, a.upstream.port))
    /\ \A w \in Workers :
        sw[w].pc = "delete" =>
            \A name \in sw[w].items : \A a \in gwApis :
                a.name = name => a.upstream = ExpectedUpstream(sw[w].key, sw[w].ports[sw[w].i])

\* C18 witness: syncServices has listed, for port 443 of the service, the
\* API that syncIngress created with the https upstream.
C18_Witness ==
    \E w \in Workers :
        /\ sw[w].pc = "delete"
        /\ sw[w].ports[sw[w].i] = 443
        /\ \E a \in gwApis : a.name \in sw[w].items /\ a.upstream.proto = "https"

\* Worker w finds, in this step, that the backend service of the path it
\* is at is not in the store of the service informer.
ServiceMissed(w) ==
    /\ iw[w].pc = "finalizer" /\ iw'[w] # iw[w]
    /\ ~svcCache[CurPath(iw[w]).svc].exists

\* The names of the APIs of the paths of an ingress from position at on.
ApiNamesFrom(ingress, at) ==
    {ApiNameOf(PathsOf(ingress)[i]) : i \in {x \in 1..Len(PathsOf(ingress)) : x >= at}}

\* C19: when the backend service of a path is not in the service store,
\* syncIngress records the warning event ServiceNotFound and returns an
\* error, and patches no service and calls the gateway for neither that
\* path nor a later one, while the API of an earlier path stays.
C19_ServiceNotFoundStops ==
    [][\A w \in Workers :
        ServiceMissed(w) =>
            /\ iw'[w].pc = "ret" /\ iw'[w].res = "err"
            /\ ServiceNotFound(iw[w].key, CurPath(iw[w]).svc, iw[w].j) \in hist'.warn
            /\ UNCHANGED <<svc, gwApis, gwPlugins, gwAuth>>
            /\ \A a \in gwApis' :
                 a.name \notin ApiNamesFrom(iw[w].ing, iw[w].j)
            /\ \A i \in 1..(iw[w].j - 1) :
                 \E a \in gwApis' : a.name = ApiNameOf(PathsOf(iw[w].ing)[i])]_vars

\* C19 witness: the sync of the ingress whose second path has no service
\* has returned the error for the second time, the event is recorded, and
\* the API of the first path is on the gateway and no other.
C19_Witness ==
    \E w \in Workers :
        /\ iw[w].pc = "ret" /\ iw[w].res = "err" /\ iw[w].ing = IngLost
        /\ ingRequeues[iw[w].key] = 1
        /\ ServiceNotFound(iw[w].key, "s2", 2) \in hist.warn
        /\ {a.name : a \in gwApis} = {ApiName("h1", Namespace, PA)}
        /\ faults = MaxFaults

\* The step of the loop body a worker is in: 1 the service check and the
\* finalizer patch, 2 the API upsert, 3 the plugins, 4 the certificates,
\* 5 the identity provider.
Stage(pc) ==
    CASE pc = "finalizer" -> 1
      [] pc \in {"get", "upsert"} -> 2
      [] pc \in {"plugins", "pcreate"} -> 3
      [] pc \in {"secret", "cert"} -> 4
      [] pc \in {"pem", "consumer", "mkconsumer", "jwtlist", "mkjwt"} -> 5
      [] OTHER -> 0

\* Worker w takes a step of its sync.
IngWorkerStep(w) == iw[w].pc \notin {"idle", "ret"} /\ iw'[w] # iw[w]

\* C20: for an ingress with plugins, certificates and an identity provider
\* the steps of a path come in the order service check and finalizer patch,
\* API upsert, plugins, certificates, identity provider, none left out and
\* the next path after the last of them; the service is patched only when
\* the check found it, an API is created or updated only after the
\* finalizer patch of its backend service has succeeded in the same sync,
\* each effect belongs to its step, and the step that fails changes
\* nothing, undoes nothing and is the last of the sync.
C20_StepOrder ==
    [][\A w \in Workers :
        IngWorkerStep(w) =>
            /\ (iw'[w].pc # "ret" /\ iw'[w].j = iw[w].j)
                 => Stage(iw'[w].pc) \in {Stage(iw[w].pc), Stage(iw[w].pc) + 1}
            /\ (iw'[w].pc # "ret" /\ iw'[w].j # iw[w].j)
                 => (Stage(iw[w].pc) = 5 /\ iw'[w].pc = "finalizer" /\ iw'[w].j = iw[w].j + 1)
            /\ (iw'[w].pc = "ret" /\ iw'[w].res = "ok")
                 => (Stage(iw[w].pc) = 5 /\ iw[w].j = Len(PathsOf(iw[w].ing)))
            /\ svc' # svc
                 => (iw[w].pc = "finalizer" /\ serviceExists(CurPath(iw[w]).svc))
            /\ gwApis' # gwApis
                 => (iw[w].pc = "upsert" /\ CurPath(iw[w]).svc \in iw[w].fin)
            /\ gwPlugins' # gwPlugins => iw[w].pc = "pcreate"
            /\ gwAuth'.snis # gwAuth.snis => iw[w].pc = "cert"
            /\ gwAuth'.consumers # gwAuth.consumers => iw[w].pc = "mkconsumer"
            /\ gwAuth'.creds # gwAuth.creds => iw[w].pc = "mkjwt"
            /\ (iw'[w].pc = "ret" /\ iw'[w].res # "ok")
                 => UNCHANGED <<svc, gwApis, gwPlugins, gwAuth>>]_vars

\* C20 witness: a sync has failed at the certificates of its first path
\* (the second secret is not a TLS secret) and what the steps before did
\* stays, the finalizer, the API, its plugin and the certificate of the
\* first host, while the identity provider's step has not run.
C20_Witness ==
    \E w \in Workers :
        /\ iw[w].pc = "ret" /\ iw[w].res = "err" /\ iw[w].ing = IngFullOpaque
        /\ faults = MaxFaults
        /\ Finalizer \in svc["s1"].finalizers
        /\ Cardinality(gwApis) = 1
        /\ Cardinality(gwPlugins) = 1
        /\ gwAuth.snis = {"h1"}
        /\ gwAuth.consumers = {} /\ gwAuth.creds = {}

\* Worker w of ingQueue gets the answer of UpdateOrCreate in this step.
UpsertStep(w) == iw[w].pc = "upsert" /\ iw'[w] # iw[w]

\* The steps of a path after the API was sent.
AfterUpsert == {"plugins", "pcreate", "secret", "cert",
                "pem", "consumer", "mkconsumer", "jwtlist", "mkjwt"}

\* C21: when the gateway answers the upsert of the API with a conflict the
\* sync does not return an error at that step: it enters the configuration
\* of the plugins, from which the certificates and the identity provider
\* follow, with no API created or changed.  Any other error of the upsert
\* (a failed call, a UID the gateway does not hold) returns an error with
\* no plugin, certificate, consumer or credential written; and the steps
\* after the upsert are only ever taken after an upsert that created,
\* updated or met a conflict.
C21_ConflictTolerated ==
    [][\A w \in Workers :
        /\ UpsertStep(w) =>
            LET outcome == UpsertOutcome(apiBody(CurPath(iw[w]), iw[w].api)) IN
            /\ (faults' = faults /\ outcome = "conflict")
               => /\ iw'[w] = EnterPlugins(iw[w], 0, "conflict")
                  /\ ~(iw'[w].pc = "ret" /\ iw'[w].res = "err")
                  /\ gwApis' = gwApis
            /\ (faults' # faults \/ outcome = "notfound")
               => /\ iw'[w].pc = "ret" /\ iw'[w].res = "err"
                  /\ gwApis' = gwApis /\ gwPlugins' = gwPlugins /\ gwAuth' = gwAuth
        /\ iw'[w].pc \in AfterUpsert
            => iw'[w].resp \in {"created", "updated", "conflict"}]_vars

\* C21 is witnessed by a sync whose upsert met a conflict and that then
\* returned nil, after the certificate and the identity provider's
\* consumer and credential were looked after, the other ingress of the
\* same host and path having created the one API.
C21_Witness ==
    \E w \in Workers :
        /\ iw[w].pc = "ret" /\ iw[w].res = "ok" /\ iw[w].resp = "conflict"
        /\ CertsOf(iw[w].ing) # << >> /\ Auth0Host(iw[w].ing) # ""
        /\ Cardinality(gwApis) = 1
        /\ "h1" \in gwAuth.snis
        /\ Auth0ConfiguredIn(gwAuth, Auth0Host(iw[w].ing))

\* Worker w of svcQueue takes a key and looks the service up in this step.
SvcTakes(w) == sw[w].pc = "idle" /\ sw'[w].pc # "idle"

\* Worker w of ingQueue takes a key and looks the ingress up in this step.
IngTakes(w) == iw[w].pc = "idle" /\ iw'[w].pc # "idle"

\* C22: syncServices of a key whose service is not in the store, or is
\* there without a deletion timestamp, returns nil at once, with no call
\* made: the gateway and the services are as they were, and a worker that
\* lists, deletes or patches has read a service with a deletion timestamp.
\* syncIngress of a key whose ingress is not in the store returns nil at
\* once: the gateway, the services and the ingresses are as they were.
C22_NothingToDoReturnsNil ==
    [][\A w \in Workers :
        /\ (SvcTakes(w) /\ (~svcCache[sw'[w].key].exists \/ ~svcCache[sw'[w].key].deleting))
            => /\ sw'[w].pc = "ret" /\ sw'[w].res = "ok"
               /\ UNCHANGED <<gwApis, gwPlugins, gwAuth, svc, svcCache, ing, faults>>
        /\ sw'[w].pc \in {"list", "delete", "patch"} => sw'[w].deleting
        /\ (IngTakes(w) /\ ~ing[iw'[w].key].exists)
            => /\ iw'[w].pc = "ret" /\ iw'[w].res = "ok"
               /\ UNCHANGED <<gwApis, gwPlugins, gwAuth, svc, svcCache, ing, faults>>]_vars

\* C22 is witnessed by the three syncs having happened: a service worker
\* has returned nil for a key that is not in the store, the ingress was
\* deleted after its sync created an API and a worker has returned nil
\* for its key, the API still on the gateway.
C22_Witness ==
    /\ \E w \in Workers :
            sw[w].pc = "ret" /\ sw[w].res = "ok" /\ ~sw[w].deleting
            /\ ~svcCache[sw[w].key].exists
    /\ \E w \in Workers :
            iw[w].pc = "ret" /\ iw[w].res = "ok" /\ ~iw[w].ing.exists
    /\ gwApis # {}

\* A service in the store without a deletion timestamp has been synced.
C22_WitnessLive ==
    \E w \in Workers :
        sw[w].pc = "ret" /\ sw[w].res = "ok" /\ ~sw[w].deleting
        /\ svcCache[sw[w].key].exists /\ ~svcCache[sw[w].key].deleting

\* The API of that name is on the gateway before the step and not after.
ApiRemoved(name) ==
    /\ \E a \in gwApis : a.name = name
    /\ \A a \in gwApis' : a.name # name

\* No worker of ingQueue moves in this step.
NoIngressStep == \A w \in Workers : iw'[w].pc = iw[w].pc /\ iw'[w].j = iw[w].j

\* An API leaves the gateway only in the Delete call of a syncServices that
\* read, from the store, a service with a deletion timestamp whose
\* upstream the API has; no step of syncIngress removes one.
C23_RemovedOnlyByServiceSync ==
    [][\A a \in gwApis :
        ApiRemoved(a.name)
        => /\ NoIngressStep
           /\ \E w \in Workers :
                /\ sw[w].pc = "delete" /\ sw'[w] # sw[w]
                /\ sw[w].deleting
                /\ a.upstream.svc = sw[w].key]_vars

\* C23: a gateway API is removed only by the service sync of a service
\* with a deletion timestamp, never by a step of ingress sync, and never
\* while the service its upstream names exists without a deletion
\* timestamp.
C23_ApiRemovedOnlyForDeletedService ==
    [][\A a \in gwApis :
        ApiRemoved(a.name)
        => /\ NoIngressStep
           /\ \E w \in Workers :
                /\ sw[w].pc = "delete" /\ sw'[w] # sw[w]
                /\ sw[w].deleting
                /\ a.upstream.svc = sw[w].key
           /\ ~(svc[a.upstream.svc].exists /\ ~svc[a.upstream.svc].deleting)]_vars

\* C24: marking an ingress dirty is best-effort.  A sync patches the dirty
\* annotation onto the ingress only when numRequeues is above
\* autoClaimMaxRetries and the ingress it read does not carry it; when the
\* ingress carries it, or numRequeues is not above, no call is made.
\* Whether the patch succeeded, failed or was not sent, the sync goes on to
\* the rules of the ingress it read: to the first path, or to return nil
\* when there is none.  A sync that ends with an error is requeued, dirty
\* or not.
C24_DirtyBestEffort ==
    [][\A w \in Workers :
        /\ (IngTakes(w) /\ ing[iw'[w].key].exists) =>
            LET k == iw'[w].key
                over == ingRequeues[k] > autoClaimMaxRetries
            IN
            /\ (~over \/ IsDirty(ing[k])) => (ing' = ing /\ faults' = faults /\ k \notin ingQueue')
            /\ ing' # ing => /\ over /\ ~IsDirty(ing[k])
                             /\ ing' = [ing EXCEPT ![k] = WithDirty(@)]
            /\ faults' # faults => (over /\ ~IsDirty(ing[k]) /\ ing' = ing)
            /\ iw'[w].ing = ing[k]
            /\ IF PathsOf(ing[k]) = << >>
               THEN iw'[w].pc = "ret" /\ iw'[w].res = "ok"
               ELSE iw'[w].pc = "finalizer" /\ iw'[w].j = 1
        /\ (iw[w].pc = "ret" /\ iw'[w].pc = "idle" /\ iw[w].res = "err"
            /\ ingRequeues[iw[w].key] < MaxRequeues)
            => /\ iw[w].key \in ingQueue'
               /\ ingRequeues'[iw[w].key] = ingRequeues[iw[w].key] + 1]_vars

\* C24 is witnessed by a sync over the threshold whose dirty patch failed:
\* the ingress is not dirty, and the sync went on to the rules and has
\* patched the backend service of the first path.
C24_Witness ==
    \E w \in Workers :
        /\ iw[w].pc = "get" /\ iw[w].j = 1 /\ iw[w].fin = {"s1"}
        /\ iw[w].ing = IngLost
        /\ ingRequeues[iw[w].key] > autoClaimMaxRetries
        /\ iw[w].key \in hist.hot
        /\ ~IsDirty(ing[iw[w].key])
        /\ faults = 0

\* The key of an ingress marked dirty is reconciled again: a sync has
\* read the ingress with the annotation and is at its rules.
C24_WitnessAfterDirty ==
    \E w \in Workers :
        /\ iw[w].pc = "get" /\ IsDirty(iw[w].ing)
        /\ iw[w].key \in hist.hot

\* The service has a deletion timestamp and carries the cleanup finalizer.
AwaitsCollection(s) == svc[s].deleting /\ Finalizer \in svc[s].finalizers

\* C25: a service that has a deletion timestamp and carries the cleanup
\* finalizer, whatever its port list, has its finalizers emptied in the
\* end, when the workers are scheduled and the calls succeed.
C25_FinalizersEventuallyEmptied ==
    \A s \in SvcKeys : AwaitsCollection(s) ~> (svc[s].finalizers = {})

\* The same of a service that has a port.
C25_EmptiedWhenPorts ==
    \A s \in SvcKeys :
        (AwaitsCollection(s) /\ svc[s].ports # << >>) ~> (svc[s].finalizers = {})

====
